---- MODULE Spec2Model ----
(***************************************************************************)
(* The synthesizer's audio parameter engine: the node lifecycle pool       *)
(* (src/unnamed/part_008), the envelope scheduler (src/unnamed/part_007),  *)
(* the URL codec (src/src/utils/urlUtils.ts, src/unnamed/part_006) and the *)
(* numeric conversions (src/src/utils/midiUtils.ts, src/src/types).  The   *)
(* parts share no state, so each has its own specifications, in which the  *)
(* variables of the other parts stay as they are.                          *)
(*                                                                         *)
(* Node lifecycle pool.                                                    *)
(* The pool is a module-level singleton: globalPool is null until          *)
(* initializeNodePool runs, and nothing ever sets it back to null.  Its    *)
(* nodes field is a JavaScript Map, which iterates in insertion order, so  *)
(* it is a sequence of metadata records here.  Audio nodes are external    *)
(* objects: the model keeps the kind of every node the factory has made    *)
(* and, for each handler call, the disconnect() and stop() calls it made   *)
(* on them.  Callers keep their references, so any node made so far can    *)
(* be handed to releaseNode or disposeNode again.  AudioParam values (what *)
(* resetNodeState writes) are not part of the modelled state.  Every       *)
(* handler runs to completion on the UI thread, so each is one atomic      *)
(* action at one reading of Date.now().                                    *)
(***************************************************************************)
EXTENDS Integers, Sequences, FiniteSets, TLC

(* ------------------------------ bounds -------------------------------- *)

\* Number of node objects the factory makes in one run.
MaxNodes == 2

\* Largest reading of Date.now() (milliseconds since the model's epoch).
MaxTime == 60001

NodeIds == 1..MaxNodes

\* The node types the model draws from (two of the twelve of NodeType):
\* one with a type-specific teardown, one without.
NodeType == {"gain", "oscillator"}

(* ------------------------- program constants -------------------------- *)

DefaultMaxPoolSize == 32
DefaultCleanupInterval == 30000
MaxAge == 60000

DEFAULT_POOL_CONFIG ==
    [maxPoolSize |-> DefaultMaxPoolSize,
     enablePooling |-> TRUE,
     cleanupInterval |-> DefaultCleanupInterval]

\* Partial<NodePoolConfig>: the keys the caller gives, and their values (the
\* value of a key that is not given is not read).
ConfigKeys == {"maxPoolSize", "enablePooling", "cleanupInterval"}
PoolSizeInputs == {0, 1}
IntervalInputs == {DefaultCleanupInterval}
PartialConfigs ==
    {c \in [given : SUBSET ConfigKeys,
            maxPoolSize : PoolSizeInputs \cup {DefaultMaxPoolSize},
            enablePooling : BOOLEAN,
            cleanupInterval : IntervalInputs] :
        /\ "maxPoolSize" \notin c.given => c.maxPoolSize = DefaultMaxPoolSize
        /\ "maxPoolSize" \in c.given => c.maxPoolSize \in PoolSizeInputs
        /\ "enablePooling" \notin c.given => c.enablePooling
        /\ "cleanupInterval" \notin c.given}

\* { ...base, ...partial }
Merge(base, partial) ==
    [maxPoolSize |-> IF "maxPoolSize" \in partial.given
                     THEN partial.maxPoolSize ELSE base.maxPoolSize,
     enablePooling |-> IF "enablePooling" \in partial.given
                       THEN partial.enablePooling ELSE base.enablePooling,
     cleanupInterval |-> IF "cleanupInterval" \in partial.given
                         THEN partial.cleanupInterval ELSE base.cleanupInterval]

\* Amounts by which the clock advances between two handlers: up to the
\* staleness threshold, and past it.
TickSteps == {MaxAge, MaxAge + 1}

ZeroStats ==
    [created |-> 0, reused |-> 0, disposed |-> 0, poolHits |-> 0, poolMisses |-> 0]

\* Each counter is capped so that the model stays finite.
MaxCount == 2

VARIABLES
    initialized,   \* globalPool # null
    nodes,         \* globalPool.nodes, in insertion order
    config,        \* globalPool.config
    stats,         \* globalPool.stats
    timer,         \* interval of the setInterval registered by initializeNodePool, 0 if none
    now,           \* Date.now()
    made,          \* number of node objects the factory has returned so far
    kind,          \* kind[n]: the type node n was created as
    last,          \* the most recent handler call and what it did
    chain,         \* how far the calls have got through acquire, release, acquire
    param,         \* one AudioParam's automation timeline and the scheduler's last run on it
    url,           \* the URL codec: a synth state, its query string, the decoded overlay
    num,           \* a numeric conversion: its input and its result
    held           \* held[n]: the callers that hold node n (got it and have not released it)

vars ==
    <<initialized, nodes, config, stats, timer, now, made, kind, last, chain,
      param, url, num, held>>

\* The node pool, and everything that is not the node pool.
poolAll == <<initialized, nodes, config, stats, timer, now, made, kind, last, chain>>
offPool == <<param, url, num, held>>

poolVars == <<initialized, nodes, config, stats, timer>>

(* ------------------------------ helpers ------------------------------- *)

Tracked == {nodes[i].node : i \in DOMAIN nodes}

TrackedIn(seq) == {seq[i].node : i \in DOMAIN seq}

\* Map.delete(node)
Delete(seq, n) == SelectSeq(seq, LAMBDA m : m.node # n)

Bump(st, field) == [st EXCEPT ![field] = @ + 1]

\* The nodes that exist, and the object the factory returns next.
Live == 1..made
FreshNode == made + 1

\* A handler call: the node it was given or returned (0: none), the type asked
\* for, how it ended, whether a call it made on the host raised, whether an
\* exception left it, and the nodes it called disconnect() and stop() on.
Call(op, n, t, outcome, raised, threw, disc, stops) ==
    [op |-> op, node |-> n, type |-> t, outcome |-> outcome, raised |-> raised,
     threw |-> threw, disc |-> disc, stops |-> stops]

NoCall == Call("none", 0, "none", "none", FALSE, FALSE, {}, {})

\* chain follows the calls for the sequence h = getPooledNode(t),
\* releaseNode(h), getPooledNode(t).  Stage 1: the last call was a
\* getPooledNode that returned chain.node.  Stage 2: the last two calls were
\* that and releaseNode(chain.node).  Stage 3: the last three calls were those
\* and a getPooledNode for the type of chain.node (last holds what it
\* returned).  Stage 4: the last two calls were releaseNode(chain.node), twice
\* in a row after it was acquired.  Stage 0: none of these.
Advance(c) ==
    IF c.op = "getPooledNode"
    THEN IF chain.stage = 2 /\ kind[chain.node] = c.type
         THEN [stage |-> 3, node |-> chain.node]
         ELSE IF c.node # 0 THEN [stage |-> 1, node |-> c.node]
         ELSE [stage |-> 0, node |-> 0]
    ELSE IF c.op = "releaseNode"
              /\ \/ chain.stage = 1 /\ chain.node = c.node
                 \/ chain.stage = 3 /\ last.node = c.node
    THEN [stage |-> 2, node |-> c.node]
    ELSE IF c.op = "releaseNode" /\ chain.stage = 2 /\ chain.node = c.node
    THEN [stage |-> 4, node |-> c.node]
    ELSE [stage |-> 0, node |-> 0]

\* The values of the synthesizer's state and of the URL codec: a number
\* m / 10^e, NaN, an infinity, a boolean, a text and null.
Num(m, e) == [t |-> "num", m |-> m, e |-> e, s |-> <<>>]
NaN == [t |-> "nan", m |-> 0, e |-> 0, s |-> <<>>]
Infinite(sign) == [t |-> "inf", m |-> sign, e |-> 0, s |-> <<>>]
Bool(b) == [t |-> "bool", m |-> IF b THEN 1 ELSE 0, e |-> 0, s |-> <<>>]
Str(text) == [t |-> "str", m |-> 0, e |-> 0, s |-> text]
Null == [t |-> "null", m |-> 0, e |-> 0, s |-> <<>>]

\* createInitialState: the fields of the store when it is constructed.  A
\* field inside an object is named by its path.
createInitialState ==
    ("isDisabled" :> Bool(TRUE)) @@
    ("activeKeys" :> Null) @@
    ("pitchWheel" :> Num(50, 0)) @@
    ("modWheel" :> Num(50, 0)) @@
    ("masterTune" :> Num(0, 0)) @@
    ("oscillator1.waveform" :> Str(<<"sawtooth">>)) @@
    ("oscillator1.frequency" :> Num(0, 0)) @@
    ("oscillator1.range" :> Str(<<"8">>)) @@
    ("oscillator1.enabled" :> Bool(TRUE)) @@
    ("oscillator2.waveform" :> Str(<<"sawtooth">>)) @@
    ("oscillator2.frequency" :> Num(-7, 0)) @@
    ("oscillator2.range" :> Str(<<"8">>)) @@
    ("oscillator2.enabled" :> Bool(TRUE)) @@
    ("oscillator3.waveform" :> Str(<<"triangle">>)) @@
    ("oscillator3.frequency" :> Num(-7, 0)) @@
    ("oscillator3.range" :> Str(<<"8">>)) @@
    ("oscillator3.enabled" :> Bool(TRUE)) @@
    ("mixer.osc1.enabled" :> Bool(TRUE)) @@
    ("mixer.osc1.volume" :> Num(9, 0)) @@
    ("mixer.osc2.enabled" :> Bool(TRUE)) @@
    ("mixer.osc2.volume" :> Num(7, 0)) @@
    ("mixer.osc3.enabled" :> Bool(TRUE)) @@
    ("mixer.osc3.volume" :> Num(5, 0)) @@
    ("mixer.noise.enabled" :> Bool(FALSE)) @@
    ("mixer.noise.volume" :> Num(0, 0)) @@
    ("mixer.noise.noiseType" :> Str(<<"white">>)) @@
    ("mixer.external.enabled" :> Bool(FALSE)) @@
    ("mixer.external.volume" :> Num(0, 0)) @@
    ("mainVolume" :> Num(5, 0)) @@
    ("isMainActive" :> Bool(TRUE)) @@
    ("glideOn" :> Bool(TRUE)) @@
    ("glideTime" :> Num(1, 0)) @@
    ("filterAttack" :> Num(3, 1)) @@
    ("filterDecay" :> Num(25, 1)) @@
    ("filterSustain" :> Num(45, 1)) @@
    ("filterCutoff" :> Num(25, 1)) @@
    ("filterEmphasis" :> Num(65, 1)) @@
    ("filterContourAmount" :> Num(55, 1)) @@
    ("filterModulationOn" :> Bool(TRUE)) @@
    ("keyboardControl1" :> Bool(FALSE)) @@
    ("keyboardControl2" :> Bool(FALSE)) @@
    ("loudnessAttack" :> Num(3, 1)) @@
    ("loudnessDecay" :> Num(25, 1)) @@
    ("loudnessSustain" :> Num(55, 1)) @@
    ("decaySwitchOn" :> Bool(FALSE)) @@
    ("oscillatorModulationOn" :> Bool(FALSE)) @@
    ("lfoWaveform" :> Str(<<"triangle">>)) @@
    ("lfoRate" :> Num(35, 1)) @@
    ("modMix" :> Num(25, 1)) @@
    ("osc3Control" :> Bool(TRUE)) @@
    ("osc3FilterEgSwitch" :> Bool(TRUE)) @@
    ("noiseLfoSwitch" :> Bool(FALSE)) @@
    ("tunerOn" :> Bool(FALSE)) @@
    ("auxOutput.enabled" :> Bool(FALSE)) @@
    ("auxOutput.volume" :> Num(0, 0))

\* What the other parts of the engine hold while only the pool runs.
ParamIdle ==
    [events |-> <<>>, issued |-> <<>>, op |-> "none", args |-> <<>>,
     runs |-> 0, rejected |-> <<0, "none">>, thrown |-> "none"]
UrlIdle ==
    [phase |-> "idle", origin |-> "none", state |-> [f \in {} |-> 0],
     search |-> <<>>, result |-> [null |-> TRUE, state |-> [f \in {} |-> 0]],
     applied |-> FALSE, store |-> createInitialState]
NumIdle == [phase |-> "idle", input |-> 0, mid |-> 0, output |-> 0]

(* ------------------------------- Init --------------------------------- *)

Init ==
    /\ initialized = FALSE
    /\ nodes = <<>>
    /\ config = DEFAULT_POOL_CONFIG
    /\ stats = ZeroStats
    /\ timer = 0
    /\ now = 0
    /\ made = 0
    /\ kind = [n \in NodeIds |-> "gain"]
    /\ last = NoCall
    /\ chain = [stage |-> 0, node |-> 0]
    /\ param = ParamIdle
    /\ url = UrlIdle
    /\ num = NumIdle
    /\ held = [n \in NodeIds |-> {}]

(* ----------------------- pieces of the handlers ------------------------ *)

\* What a handler can change besides the pool's config: the tracked handles
\* and the counters.  disc and stops collect the nodes it called disconnect()
\* and stop() on; raised says that one of these calls raised, threw that an
\* exception left the handler.
World ==
    [nodes |-> nodes, stats |-> stats, disc |-> {}, stops |-> {},
     raised |-> FALSE, threw |-> FALSE]

\* A scan that takes the first entry of the type, active or not.
FirstOfType(t) ==
    LET hits == {i \in DOMAIN nodes : nodes[i].type = t}
    IN IF hits = {} THEN 0 ELSE CHOOSE i \in hits : \A j \in hits : i <= j

\* getPooledNode's scan: the first entry of the Map, in insertion order, of the
\* requested type that is not active; 0 when there is none.
FirstIdle(t) ==
    LET hits == {i \in DOMAIN nodes : nodes[i].type = t /\ ~nodes[i].isActive}
    IN IF hits = {} THEN 0 ELSE CHOOSE i \in hits : \A j \in hits : i <= j

\* globalPool.nodes.size < globalPool.config.maxPoolSize
HasRoom == Len(nodes) < config.maxPoolSize

\* A cleanup test that also takes an entry exactly at the threshold.
StaleAtThreshold(m) == ~m.isActive /\ now - m.lastUsed >= MaxAge

\* cleanupPool's test of one entry
Stale(m) == ~m.isActive /\ now - m.lastUsed > MaxAge

\* The host decides which calls on a node raise: faulty holds the pairs of a
\* node and a method whose call raises.
Methods == {"disconnect", "stop"}
DisconnectRaises(n, faulty) == <<n, "disconnect">> \in faulty
StopRaises(n, faulty) == <<n, "stop">> \in faulty

\* A try block without its catch: what the block raises leaves the handler.
NotCaught(raised) == raised

\* try { ... } catch { }: whatever the block raised does not leave the handler.
Swallowed(raised) == FALSE

\* The try block of disposeNode, lines 205-223: disconnect(), then stop() for
\* an oscillator; a raising disconnect() skips the stop() behind it.  (No node
\* of NodeType has a port, so the worklet branch never runs.)
Teardown(w, n, faulty) ==
    IF DisconnectRaises(n, faulty)
    THEN [w EXCEPT !.disc = @ \cup {n},
                   !.raised = TRUE,
                   !.threw = @ \/ Swallowed(TRUE)]
    ELSE IF kind[n] = "oscillator"
    THEN [w EXCEPT !.disc = @ \cup {n},
                   !.stops = @ \cup {n},
                   !.raised = @ \/ StopRaises(n, faulty),
                   !.threw = @ \/ Swallowed(StopRaises(n, faulty))]
    ELSE [w EXCEPT !.disc = @ \cup {n}]

\* A disposal that forgets the handle without counting it.
UntrackUncounted(w, n) ==
    IF n \in TrackedIn(w.nodes)
    THEN [w EXCEPT !.nodes = Delete(@, n)]
    ELSE w

\* A disposal that keeps created as a count of the live handles.
UntrackLiveCount(w, n) ==
    IF n \in TrackedIn(w.nodes)
    THEN [w EXCEPT !.nodes = Delete(@, n),
                   !.stats = [@ EXCEPT !.created = @ - 1, !.disposed = @ + 1]]
    ELSE w

\* The bookkeeping of disposeNode, lines 199-203.
Untrack(w, n) ==
    IF n \in TrackedIn(w.nodes)
    THEN [w EXCEPT !.nodes = Delete(@, n), !.stats = Bump(@, "disposed")]
    ELSE w

\* disposeNode(node), lines 194-224.  The return for a null pool comes before
\* everything else.
DisposeIn(w, n, faulty) ==
    IF ~initialized THEN w
    ELSE Teardown(Untrack(w, n), n, faulty)

\* for (...) disposeNode(node) over a snapshot of the entries; an exception
\* leaving disposeNode would end the loop.
RECURSIVE DisposeEach(_, _, _)
DisposeEach(w, ids, faulty) ==
    IF ids = <<>> \/ w.threw THEN w
    ELSE DisposeEach(DisposeIn(w, Head(ids), faulty), Tail(ids), faulty)

NodesOf(seq) == [i \in DOMAIN seq |-> seq[i].node]

\* The tracked branch of releaseNode, lines 175-183.
MarkIdle(w, n, faulty) ==
    LET i == CHOOSE j \in DOMAIN w.nodes : w.nodes[j].node = n
    IN [w EXCEPT !.nodes[i].isActive = FALSE,
                 !.nodes[i].lastUsed = now,
                 !.disc = @ \cup {n},
                 !.raised = DisconnectRaises(n, faulty),
                 !.threw = Swallowed(DisconnectRaises(n, faulty))]

\* releaseNode(node), lines 167-188
ReleaseIn(w, n, faulty) ==
    IF ~initialized \/ ~config.enablePooling THEN DisposeIn(w, n, faulty)
    ELSE IF n \in TrackedIn(w.nodes) THEN MarkIdle(w, n, faulty)
    ELSE DisposeIn(w, n, faulty)

\* cleanupPool(), lines 229-240
CleanupIn(w, faulty) ==
    IF ~initialized THEN w
    ELSE DisposeEach(w, NodesOf(SelectSeq(w.nodes, Stale)), faulty)

\* clearPool(), lines 421-427
ClearIn(w, faulty) ==
    IF ~initialized THEN w
    ELSE DisposeEach(w, NodesOf(w.nodes), faulty)

\* The callers stop calling a handler that would take a counter past the cap.
Bounded(st) == \A f \in DOMAIN st : st[f] <= MaxCount

\* Write a handler's result back.
Apply(w) ==
    /\ nodes' = w.nodes
    /\ stats' = w.stats

(* ------------------------------ actions ------------------------------- *)

\* initializeNodePool(config), lines 81-110
InitializeNodePool(cfg) ==
    /\ IF initialized
       THEN /\ last' = Call("initializeNodePool", 0, "none", "existing", FALSE, FALSE, {}, {})
            /\ UNCHANGED <<poolVars, now, made, kind>>
       ELSE /\ initialized' = TRUE
            /\ nodes' = <<>>
            /\ config' = Merge(DEFAULT_POOL_CONFIG, cfg)
            /\ stats' = ZeroStats
            /\ timer' = IF config'.enablePooling THEN config'.cleanupInterval ELSE 0
            /\ last' = Call("initializeNodePool", 0, "none", "created", FALSE, FALSE, {}, {})
            /\ UNCHANGED <<now, made, kind>>
    /\ chain' = Advance(last')
    /\ UNCHANGED offPool

\* createNewNode succeeded: a new object of the requested type.
Create(t) ==
    /\ made < MaxNodes
    /\ made' = made + 1
    /\ kind' = [kind EXCEPT ![FreshNode] = t]

NewMeta(n, t) ==
    [node |-> n, type |-> t, createdAt |-> now, lastUsed |-> now, isActive |-> TRUE]

\* A reuse that counts the hit but not the reuse.
ReuseUncounted(i) ==
    /\ nodes' = [nodes EXCEPT ![i].isActive = TRUE, ![i].lastUsed = now]
    /\ stats' = Bump(stats, "poolHits")

\* The reuse branch of getPooledNode, lines 130-139, on entry i.
Reuse(i) ==
    /\ nodes' = [nodes EXCEPT ![i].isActive = TRUE, ![i].lastUsed = now]
    /\ stats' = Bump(Bump(stats, "poolHits"), "reused")

\* A registration that does not look at the ceiling.
RegisterAlways(n, t) ==
    /\ nodes' = Append(nodes, NewMeta(n, t))
    /\ stats' = Bump(Bump(stats, "poolMisses"), "created")

\* Lines 148-158: the new node is registered when there is room.
Register(n, t) ==
    IF HasRoom
    THEN /\ nodes' = Append(nodes, NewMeta(n, t))
         /\ stats' = Bump(Bump(stats, "poolMisses"), "created")
    ELSE /\ nodes' = nodes
         /\ stats' = Bump(stats, "poolMisses")

\* getPooledNode(type, audioContext, options), lines 119-161.  factoryFails:
\* the audioContext.createXxx() call inside createNewNode throws.
GetPooledNodeCall(t, factoryFails) ==
    /\ UNCHANGED <<initialized, config, timer, now>>
    /\ IF ~initialized \/ ~config.enablePooling
       THEN /\ UNCHANGED <<nodes, stats>>
            /\ IF factoryFails
               THEN /\ last' = Call("getPooledNode", 0, t, "unpooled", TRUE, TRUE, {}, {})
                    /\ UNCHANGED <<made, kind>>
               ELSE /\ Create(t)
                    /\ last' = Call("getPooledNode", FreshNode, t, "unpooled", FALSE, FALSE, {}, {})
       ELSE IF FirstIdle(t) # 0
       THEN /\ Reuse(FirstIdle(t))
            /\ Bounded(stats')
            /\ last' = Call("getPooledNode", nodes[FirstIdle(t)].node, t, "hit", FALSE, FALSE, {}, {})
            /\ UNCHANGED <<made, kind>>
       ELSE IF factoryFails
       THEN /\ stats' = Bump(stats, "poolMisses")
            /\ Bounded(stats')
            /\ last' = Call("getPooledNode", 0, t, "miss", TRUE, TRUE, {}, {})
            /\ UNCHANGED <<nodes, made, kind>>
       ELSE /\ Create(t)
            /\ Register(FreshNode, t)
            /\ Bounded(stats')
            /\ last' = Call("getPooledNode", FreshNode, t, "miss", FALSE, FALSE, {}, {})
    /\ chain' = Advance(last')

\* A call of getPooledNode whose caller is not followed.
GetPooledNode(t, factoryFails) ==
    /\ GetPooledNodeCall(t, factoryFails)
    /\ UNCHANGED offPool

\* releaseNode(node), lines 167-188, as one call.
ReleaseNodeCall(n, faulty) ==
    /\ n \in Live
    /\ LET w == ReleaseIn(World, n, faulty)
       IN /\ Apply(w)
          /\ Bounded(w.stats)
          /\ last' = Call("releaseNode", n, kind[n], "returned", w.raised, w.threw, w.disc, w.stops)
    /\ UNCHANGED <<initialized, config, timer, now, made, kind>>
    /\ chain' = Advance(last')

\* A call of releaseNode whose caller is not followed.
ReleaseNode(n, faulty) ==
    /\ ReleaseNodeCall(n, faulty)
    /\ UNCHANGED offPool

DisposeNode(n, faulty) ==
    /\ n \in Live
    /\ LET w == DisposeIn(World, n, faulty)
       IN /\ Apply(w)
          /\ Bounded(w.stats)
          /\ last' = Call("disposeNode", n, kind[n], "returned", w.raised, w.threw, w.disc, w.stops)
    /\ UNCHANGED <<initialized, config, timer, now, made, kind>>
    /\ chain' = Advance(last')
    /\ UNCHANGED offPool

\* A direct call of the exported cleanupPool.
CleanupPool(faulty) ==
    /\ LET w == CleanupIn(World, faulty)
       IN /\ Apply(w)
          /\ Bounded(w.stats)
          /\ last' = Call("cleanupPool", 0, "none", "called", w.raised, w.threw, w.disc, w.stops)
    /\ UNCHANGED <<initialized, config, timer, now, made, kind>>
    /\ chain' = Advance(last')
    /\ UNCHANGED offPool

\* The setInterval callback registered by initializeNodePool, lines 103-107.
CleanupTimer(faulty) ==
    /\ timer # 0
    /\ LET w == CleanupIn(World, faulty)
       IN /\ Apply(w)
          /\ last' = Call("cleanupPool", 0, "none", "called", w.raised, w.threw, w.disc, w.stops)
    /\ UNCHANGED <<initialized, config, timer, now, made, kind>>
    /\ chain' = Advance(last')
    /\ UNCHANGED offPool

ClearPool(faulty) ==
    /\ LET w == ClearIn(World, faulty)
       IN /\ Apply(w)
          /\ Bounded(w.stats)
          /\ last' = Call("clearPool", 0, "none", "returned", w.raised, w.threw, w.disc, w.stops)
    /\ UNCHANGED <<initialized, config, timer, now, made, kind>>
    /\ chain' = Advance(last')
    /\ UNCHANGED offPool

\* resetPoolStats(), lines 253-263
ResetPoolStats ==
    /\ stats' = IF initialized THEN ZeroStats ELSE stats
    /\ last' = Call("resetPoolStats", 0, "none", "returned", FALSE, FALSE, {}, {})
    /\ UNCHANGED <<initialized, nodes, config, timer, now, made, kind>>
    /\ chain' = Advance(last')
    /\ UNCHANGED offPool

\* updatePoolConfig(config), lines 433-437
UpdatePoolConfig(cfg) ==
    /\ config' = IF initialized THEN Merge(config, cfg) ELSE config
    /\ last' = Call("updatePoolConfig", 0, "none", "returned", FALSE, FALSE, {}, {})
    /\ UNCHANGED <<initialized, nodes, stats, timer, now, made, kind>>
    /\ chain' = Advance(last')
    /\ UNCHANGED offPool

\* The clock advances between handlers.
Tick(d) ==
    /\ now + d <= MaxTime
    /\ now' = now + d
    /\ UNCHANGED <<poolVars, made, kind, last, chain>>
    /\ UNCHANGED offPool

(* --------------------------- specifications --------------------------- *)

\* Spec: the handlers that hand out, take back and dispose nodes and that
\* configure the pool, called in any order with any input, all within one
\* reading of the clock.  The counters are never reset.
Next ==
    \/ \E cfg \in PartialConfigs : InitializeNodePool(cfg)
    \/ \E t \in NodeType, f \in BOOLEAN : GetPooledNode(t, f)
    \/ \E n \in NodeIds : \E faulty \in SUBSET ({n} \X Methods) : ReleaseNode(n, faulty)
    \/ \E n \in NodeIds : \E faulty \in SUBSET ({n} \X Methods) : DisposeNode(n, faulty)
    \/ CleanupPool({})
    \/ \E bad \in SUBSET Methods : ClearPool(Tracked \X bad)
    \/ \E cfg \in PartialConfigs : UpdatePoolConfig(cfg)

Spec == Init /\ [][Next]_vars

\* SpecClock: every handler, the clock advances and the cleanup timer fires;
\* the callers use one node type and toggle only enablePooling, and no
\* disconnect() or stop() raises.
ClockConfigs == {c \in PartialConfigs : c.given \subseteq {"enablePooling"}}

NextClock ==
    \/ \E cfg \in ClockConfigs : InitializeNodePool(cfg)
    \/ \E f \in BOOLEAN : GetPooledNode("gain", f)
    \/ \E n \in NodeIds : ReleaseNode(n, {})
    \/ \E n \in NodeIds : DisposeNode(n, {})
    \/ CleanupPool({})
    \/ ClearPool({})
    \/ CleanupTimer({})
    \/ ResetPoolStats
    \/ \E cfg \in ClockConfigs : UpdatePoolConfig(cfg)
    \/ \E d \in TickSteps : Tick(d)

SpecClock == Init /\ [][NextClock]_vars

\* The host keeps time moving and keeps firing a registered interval timer.
SpecClockFair ==
    /\ SpecClock
    /\ WF_vars(\E d \in TickSteps : Tick(d))
    /\ WF_vars(CleanupTimer({}))

(* ------------------------------ properties ---------------------------- *)

\* The metadata the pool keeps for a tracked node.
MetaOf(seq, n) == seq[CHOOSE i \in DOMAIN seq : seq[i].node = n]

\* In every step but a clock tick, last' describes the call the step made.
CallStep(op) == last'.op = op /\ now' = now

\* The third call of h = getPooledNode("gain"), releaseNode(h),
\* getPooledNode("gain") in an initialized pool with pooling enabled, the
\* factory not raising.
ThirdOfChain ==
    /\ chain.stage = 2
    /\ chain'.stage = 3
    /\ last'.type = "gain"
    /\ initialized
    /\ config.enablePooling
    /\ ~last'.raised

\* What C1 says the third call does.
SameHandleAgain ==
    /\ last'.node = chain.node
    /\ stats'.reused = stats.reused + 1
    /\ stats'.poolHits = stats.poolHits + 1
    /\ stats'.created = stats.created

\* C1 as stated: with pooling enabled, after h = getPooledNode("gain") and
\* releaseNode(h), the next getPooledNode("gain") returns h, adds one to
\* reused and to poolHits and leaves created alone, whatever h was.
C1_AnyHandle == [][ThirdOfChain => SameHandleAgain]_vars

\* C1, for a handle the pool tracks: with pooling enabled, after
\* h = getPooledNode("gain") returned a handle the pool tracks (a reused one,
\* or one created while the pool had room) and releaseNode(h), the next
\* getPooledNode("gain") returns h, adds one to reused and to poolHits and
\* leaves created alone.
C1_TrackedHandle == [][(ThirdOfChain /\ chain.node \in Tracked) => SameHandleAgain]_vars

\* The third call of the sequence has returned the released handle as a hit.
C1_Witness ==
    /\ chain.stage = 3
    /\ last.type = "gain"
    /\ last.outcome = "hit"
    /\ last.node = chain.node
    /\ config.enablePooling

\* C2 as stated: in every reachable state the number of tracked handles is at
\* most config.maxPoolSize.
C2_WithinCeiling == initialized => Len(nodes) <= config.maxPoolSize

\* C3: with pooling enabled, the pool at its ceiling and no idle handle of the
\* requested type, getPooledNode returns a node that did not exist before,
\* does not throw, and leaves the tracked handles as they were; and
\* releaseNode on a node the pool does not track leaves the tracked handles as
\* they were and disconnects the node (it is disposed, not pooled).
C3_ExhaustionDegrades ==
    [][/\ (/\ CallStep("getPooledNode")
           /\ initialized
           /\ config.enablePooling
           /\ Len(nodes) = config.maxPoolSize
           /\ FirstIdle(last'.type) = 0
           /\ ~last'.raised)
          => (/\ ~last'.threw
              /\ last'.node \notin Live
              /\ last'.node \in 1..made'
              /\ kind'[last'.node] = last'.type
              /\ nodes' = nodes
              /\ last'.node \notin Tracked')
       /\ (/\ CallStep("releaseNode")
           /\ initialized
           /\ last'.node \notin Tracked)
          => (/\ nodes' = nodes
              /\ last'.node \notin Tracked'
              /\ last'.node \in last'.disc
              /\ ~last'.threw)]_vars

\* A node handed out untracked by a pool at its ceiling has been released, and
\* the release disconnected it without pooling it.
C3_Witness ==
    /\ chain.stage = 2
    /\ initialized
    /\ config.enablePooling
    /\ Len(nodes) = config.maxPoolSize
    /\ Len(nodes) >= 1
    /\ chain.node \notin Tracked
    /\ chain.node \in last.disc

\* C4 as stated: with pooling enabled, a getPooledNode that finds no idle
\* handle of the requested type creates a node and adds one to created and one
\* to poolMisses, at the ceiling or below it.
C4_MissCountsCreated ==
    [][(/\ CallStep("getPooledNode")
        /\ initialized
        /\ config.enablePooling
        /\ FirstIdle(last'.type) = 0
        /\ ~last'.raised)
       => (/\ made' = made + 1
           /\ stats'.created = stats.created + 1
           /\ stats'.poolMisses = stats.poolMisses + 1)]_vars

\* C5 as stated: releaseNode(h) on a tracked handle marks it idle, sets its
\* lastUsed to the current time, disconnects it, keeps it tracked with its type
\* and createdAt, and changes no counter; on a handle that is not tracked it
\* disconnects and tears down the node and leaves the tracked handles alone.
C5_ReleaseEffect ==
    [][CallStep("releaseNode") =>
        LET h == last'.node
        IN IF h \in Tracked
           THEN /\ h \in Tracked'
                /\ MetaOf(nodes', h).isActive = FALSE
                /\ MetaOf(nodes', h).lastUsed = now
                /\ MetaOf(nodes', h).type = MetaOf(nodes, h).type
                /\ MetaOf(nodes', h).createdAt = MetaOf(nodes, h).createdAt
                /\ h \in last'.disc
                /\ stats' = stats
           ELSE /\ h \in last'.disc
                /\ kind[h] = "oscillator" => h \in last'.stops
                /\ nodes' = nodes]_vars

\* C6 as stated: after disposeNode(h), in any pool state, h is not tracked, h
\* has been disconnected, stop has been attempted if h is an oscillator, and
\* disposed has grown by one exactly when h was tracked.
C6_DisposeUnconditional ==
    [][CallStep("disposeNode") =>
        LET h == last'.node
        IN /\ h \notin Tracked'
           /\ h \in last'.disc
           /\ kind[h] = "oscillator" => h \in last'.stops
           /\ stats'.disposed = stats.disposed + (IF h \in Tracked THEN 1 ELSE 0)]_vars

\* C7: cleanupPool removes exactly the tracked handles that are idle and were
\* last used more than 60000 ms before the current time, and disconnects
\* them; every other handle stays tracked, in place, with its metadata as it
\* was.
C7_CleanupExact ==
    [][CallStep("cleanupPool") =>
        /\ nodes' = SelectSeq(nodes, LAMBDA m : m.isActive \/ now - m.lastUsed <= 60000)
        /\ last'.disc = {nodes[i].node : i \in {j \in DOMAIN nodes :
                            ~nodes[j].isActive /\ now - nodes[j].lastUsed > 60000}}]_vars

\* A cleanup has disposed a stale handle and kept an idle one that is not stale.
C7_Witness ==
    /\ last.op = "cleanupPool"
    /\ last.disc # {}
    /\ \E i \in DOMAIN nodes : ~nodes[i].isActive

\* C8: no operation other than resetPoolStats lowers a counter.
C8_CountersMonotonic ==
    [][~CallStep("resetPoolStats") => \A f \in DOMAIN stats : stats'[f] >= stats[f]]_vars

\* Every counter has moved, and the last call was not a reset.
C8_Witness ==
    /\ last.op = "disposeNode"
    /\ \A f \in DOMAIN stats : stats[f] >= 1

StaleIdle(n) ==
    \E i \in DOMAIN nodes :
        /\ nodes[i].node = n
        /\ ~nodes[i].isActive
        /\ now - nodes[i].lastUsed > 60000

\* C10 as stated: with pooling enabled, time advancing and the host firing
\* every registered timer, a tracked handle that has gone idle and stale does
\* not stay so forever: it is disposed (or reused).
C10_IdleEventuallyDisposed ==
    \A n \in NodeIds : (StaleIdle(n) /\ config.enablePooling) ~> ~StaleIdle(n)

(* ========================= envelope scheduler ========================= *)
(* scheduleEnvelopeAttack and scheduleEnvelopeRelease (src/unnamed/        *)
(* part_007) hold no state: each run hands automation calls to one         *)
(* AudioParam, an object of the host.  param.events is that AudioParam's   *)
(* timeline, in the order the events were inserted, each event tagged with *)
(* the run that scheduled it; param.issued is the calls the latest run     *)
(* made, in order, the rejected one included; param.rejected is the call   *)
(* of that run the AudioParam rejected and the error it raised (0: it      *)
(* accepted them all); param.thrown is the error that left the run         *)
(* ("none": it returned).                                                  *)

\* Times the callers pass as now, durations they pass, values they pass, and
\* the number of scheduler runs on the AudioParam.
MaxNow == 1
MaxDur == 1
MaxRuns == 2
Levels == {0, 1}
Errors == {"InvalidStateError", "RangeError"}

AttackArgs ==
    [start : Levels, peak : Levels, sustain : Levels,
     attackTime : 0..MaxDur, decayTime : 0..MaxDur, now : 0..MaxNow]

ReleaseArgs ==
    [from : Levels, to : Levels, releaseTime : 0..MaxDur, now : 0..MaxNow]

AutoCall(method, value, time) == [method |-> method, value |-> value, time |-> time]

\* A decay ramp issued before the attack ramp.
AttackCallsSwapped(a) ==
    << AutoCall("cancelScheduledValues", 0, a.now),
       AutoCall("setValueAtTime", a.start, a.now),
       AutoCall("linearRampToValueAtTime", a.sustain, a.now + a.attackTime + a.decayTime),
       AutoCall("linearRampToValueAtTime", a.peak, a.now + a.attackTime) >>

\* The body of scheduleEnvelopeAttack, lines 30-33.  (cancelScheduledValues
\* takes no value: 0 stands for none.)
AttackCalls(a) ==
    << AutoCall("cancelScheduledValues", 0, a.now),
       AutoCall("setValueAtTime", a.start, a.now),
       AutoCall("linearRampToValueAtTime", a.peak, a.now + a.attackTime),
       AutoCall("linearRampToValueAtTime", a.sustain, a.now + a.attackTime + a.decayTime) >>

\* A release that does not cancel first.
ReleaseCallsNoCancel(a) ==
    << AutoCall("setValueAtTime", a.from, a.now),
       AutoCall("linearRampToValueAtTime", a.to, a.now + a.releaseTime) >>

\* The body of scheduleEnvelopeRelease, lines 59-61
ReleaseCalls(a) ==
    << AutoCall("cancelScheduledValues", 0, a.now),
       AutoCall("setValueAtTime", a.from, a.now),
       AutoCall("linearRampToValueAtTime", a.to, a.now + a.releaseTime) >>

\* What the AudioParam does with a call it accepts: cancelScheduledValues(t)
\* removes every event at or after t, the other two insert an event.
Accept(events, c, run) ==
    IF c.method = "cancelScheduledValues"
    THEN SelectSeq(events, LAMBDA e : e.time < c.time)
    ELSE Append(events, [method |-> c.method, value |-> c.value,
                         time |-> c.time, run |-> run])

\* A scheduler that catches the rejection and goes on.
RejectedIgnored(st, c, err) == [st EXCEPT !.issued = Append(@, c)]

\* The AudioParam rejects call c with err.  Neither function has a try block:
\* the error leaves the function as it is.
Rejected(st, c, err) == [st EXCEPT !.issued = Append(@, c), !.thrown = err]

\* The statements of a scheduler function, one after the other; the call
\* number failAt (0: none) is rejected with err, and a thrown error ends the
\* function.
RECURSIVE Issue(_, _, _, _, _)
Issue(st, calls, failAt, err, run) ==
    IF calls = <<>> \/ st.thrown # "none" THEN st
    ELSE LET c == Head(calls)
             k == Len(st.issued) + 1
         IN Issue(IF k = failAt
                  THEN Rejected(st, c, err)
                  ELSE [st EXCEPT !.issued = Append(@, c),
                                  !.events = Accept(@, c, run)],
                  Tail(calls), failAt, err, run)

\* One run of a scheduler function on the AudioParam.
Schedule(op, a, calls, failAt, err) ==
    /\ param.runs < MaxRuns
    /\ LET run == param.runs + 1
           st == Issue([events |-> param.events, issued |-> <<>>, thrown |-> "none"],
                       calls, failAt, err, run)
       IN param' = [events |-> st.events, issued |-> st.issued, op |-> op,
                    args |-> a, runs |-> run, rejected |-> <<failAt, err>>,
                    thrown |-> st.thrown]
    /\ UNCHANGED <<poolAll, url, num, held>>

\* scheduleEnvelopeAttack(param, options), lines 12-34
ScheduleEnvelopeAttack(a, failAt, err) ==
    Schedule("scheduleEnvelopeAttack", a, AttackCalls(a), failAt, err)

\* scheduleEnvelopeRelease(param, options), lines 45-62
ScheduleEnvelopeRelease(a, failAt, err) ==
    Schedule("scheduleEnvelopeRelease", a, ReleaseCalls(a), failAt, err)

\* The ways the host can treat a run of n calls: accept them all, or reject
\* one of them with an error.
Faults(n) == {<<0, "none">>} \cup ((1..n) \X Errors)

NextEnvelope ==
    \/ \E a \in AttackArgs, f \in Faults(4) : ScheduleEnvelopeAttack(a, f[1], f[2])
    \/ \E a \in ReleaseArgs, f \in Faults(3) : ScheduleEnvelopeRelease(a, f[1], f[2])

SpecEnvelope == Init /\ [][NextEnvelope]_vars

(* -------------------- properties of the scheduler --------------------- *)

\* The step is a run of the scheduler function op.
RunStep(op) == param'.runs = param.runs + 1 /\ param'.op = op

\* The events of the timeline at or after time t, in insertion order.
From(events, t) == SelectSeq(events, LAMBDA e : e.time >= t)

\* The pin and the ramps a run puts on the timeline, from its arguments.
PinAndRamps(op, a, run) ==
    IF op = "scheduleEnvelopeAttack"
    THEN << [method |-> "setValueAtTime", value |-> a.start, time |-> a.now, run |-> run],
            [method |-> "linearRampToValueAtTime", value |-> a.peak,
             time |-> a.now + a.attackTime, run |-> run],
            [method |-> "linearRampToValueAtTime", value |-> a.sustain,
             time |-> a.now + a.attackTime + a.decayTime, run |-> run] >>
    ELSE << [method |-> "setValueAtTime", value |-> a.from, time |-> a.now, run |-> run],
            [method |-> "linearRampToValueAtTime", value |-> a.to,
             time |-> a.now + a.releaseTime, run |-> run] >>

\* C11: a run of scheduleEnvelopeAttack that the AudioParam does not reject
\* issues exactly four calls, in this order: cancelScheduledValues(now),
\* setValueAtTime(start, now), linearRampToValueAtTime(peak, now + attackTime),
\* linearRampToValueAtTime(sustain, now + attackTime + decayTime).
C11_AttackCallOrder ==
    [][(RunStep("scheduleEnvelopeAttack") /\ param'.rejected[1] = 0) =>
        LET a == param'.args
        IN /\ Len(param'.issued) = 4
           /\ param'.issued[1] = [method |-> "cancelScheduledValues", value |-> 0, time |-> a.now]
           /\ param'.issued[2] = [method |-> "setValueAtTime", value |-> a.start, time |-> a.now]
           /\ param'.issued[3] = [method |-> "linearRampToValueAtTime", value |-> a.peak,
                                  time |-> a.now + a.attackTime]
           /\ param'.issued[4] = [method |-> "linearRampToValueAtTime", value |-> a.sustain,
                                  time |-> a.now + a.attackTime + a.decayTime]]_vars

\* An attack with distinct peak and sustain and non-zero times has run.
C11_Witness ==
    /\ param.op = "scheduleEnvelopeAttack"
    /\ param.thrown = "none"
    /\ Len(param.issued) = 4
    /\ param.args.peak # param.args.sustain
    /\ param.args.attackTime > 0
    /\ param.args.decayTime > 0

\* C12: when a run of either scheduler function follows an earlier run on the
\* same AudioParam, with a now that is not earlier, and is not rejected, no
\* event of an earlier run at or after the new now is left on the timeline,
\* and the events at or after the new now are exactly the pin and the ramp(s)
\* of the new run.
C12_RetriggerCancelsTail ==
    [][(/\ \/ RunStep("scheduleEnvelopeAttack")
           \/ RunStep("scheduleEnvelopeRelease")
        /\ param.runs >= 1
        /\ param'.args.now >= param.args.now
        /\ param'.rejected[1] = 0)
       => (/\ \A i \in DOMAIN param'.events :
                param'.events[i].run # param'.runs
                    => param'.events[i].time < param'.args.now
           /\ From(param'.events, param'.args.now)
                = PinAndRamps(param'.op, param'.args, param'.runs))]_vars

\* A release has re-triggered an AudioParam at a later now than the run before
\* it, of which only the pin is left.
C12_Witness ==
    /\ param.runs = 2
    /\ param.op = "scheduleEnvelopeRelease"
    /\ param.thrown = "none"
    /\ param.args.now > 0
    /\ Len(SelectSeq(param.events, LAMBDA e : e.run = 1)) = 1

\* C13: when the AudioParam rejects a call of a scheduler run, the error it
\* raised leaves the run as it is, the calls the run issued are the calls up
\* to the rejected one, each once, and none after it, so that the timeline
\* holds what the accepted calls did and nothing of the others; a run with no
\* rejected call throws nothing.
C13_RejectionPropagates ==
    [][(RunStep("scheduleEnvelopeAttack") \/ RunStep("scheduleEnvelopeRelease")) =>
        LET all == IF param'.op = "scheduleEnvelopeAttack"
                   THEN AttackCalls(param'.args) ELSE ReleaseCalls(param'.args)
            at == param'.rejected[1]
        IN IF at = 0
           THEN param'.thrown = "none" /\ param'.issued = all
           ELSE /\ param'.thrown = param'.rejected[2]
                /\ param'.issued = SubSeq(all, 1, at)
                /\ IF at = 1
                   THEN param'.events = param.events
                   ELSE From(param'.events, param'.args.now)
                          = SubSeq(PinAndRamps(param'.op, param'.args, param'.runs),
                                   1, at - 2)]_vars

\* The AudioParam has rejected the second call of an attack.
C13_Witness ==
    /\ param.op = "scheduleEnvelopeAttack"
    /\ param.rejected[1] = 2
    /\ param.thrown \in Errors
    /\ Len(param.issued) = 2

(* ============================== URL codec ============================== *)
(* saveStateToURL and loadStateFromURL (src/src/utils/urlUtils.ts) with    *)
(* parseAndClamp and parseOrDefault (src/unnamed/part_006).  A text is a   *)
(* sequence of atoms: the characters a number is written with ("0".."9",   *)
(* "-", "+", ".", "e", " "), the word "Infinity", and any other word,      *)
(* which stands for text no number starts with.  A JavaScript value is a   *)
(* record of one shape: a number m / 10^e with m not divisible by 10       *)
(* unless e = 0, NaN, an infinity, a boolean, a string or null.  Numbers   *)
(* are exact decimals: Number.prototype.toString writes the shortest       *)
(* decimal that parseFloat reads back as the same double, so a decimal     *)
(* stands for the double nearest to it.  The sampled numbers are between   *)
(* 1e-6 and 1e21 in magnitude, where toString uses no exponent.  A query   *)
(* string is the sequence of its "&"-separated segments, each a            *)
(* <<key, text>> pair or empty; percent-encoding is the platform's and is  *)
(* undone by URLSearchParams before the codec sees a text.                 *)
(* ======================================================================= *)

RECURSIVE Pow10(_)
Pow10(k) == IF k = 0 THEN 1 ELSE 10 * Pow10(k - 1)

\* The decimal m / 10^e in lowest form.
RECURSIVE Normal(_, _)
Normal(m, e) ==
    IF e > 0 /\ m % 10 = 0 THEN Normal(m \div 10, e - 1) ELSE Num(m, e)

DigitChars == <<"0", "1", "2", "3", "4", "5", "6", "7", "8", "9">>
IsDigit(c) == \E i \in 1..Len(DigitChars) : DigitChars[i] = c
DigitValue(c) == (CHOOSE i \in 1..Len(DigitChars) : DigitChars[i] = c) - 1

RECURSIVE DigitPrefix(_)
DigitPrefix(text) ==
    IF Len(text) > 0 /\ IsDigit(Head(text))
    THEN <<Head(text)>> \o DigitPrefix(Tail(text))
    ELSE <<>>

RECURSIVE NatOf(_)
NatOf(ds) ==
    IF Len(ds) = 0 THEN 0
    ELSE 10 * NatOf(SubSeq(ds, 1, Len(ds) - 1)) + DigitValue(ds[Len(ds)])

RECURSIVE DigitsOf(_)
DigitsOf(n) ==
    IF n < 10 THEN <<DigitChars[n + 1]>>
    ELSE DigitsOf(n \div 10) \o <<DigitChars[(n % 10) + 1]>>

PadDigits(n, width) ==
    LET d == DigitsOf(n)
    IN  [i \in 1..(width - Len(d)) |-> "0"] \o d

\* Number.prototype.toString without its fraction: what the mutated codec
\* writes.
NumberToStringWhole(v) ==
    LET a == IF v.m < 0 THEN -v.m ELSE v.m
    IN  (IF v.m < 0 THEN <<"-">> ELSE <<>>) \o DigitsOf(a \div Pow10(v.e))

\* Number.prototype.toString (radix 10).
NumberToString(v) ==
    IF v.t = "nan" THEN <<"NaN">>
    ELSE IF v.t = "inf"
    THEN (IF v.m < 0 THEN <<"-">> ELSE <<>>) \o <<"Infinity">>
    ELSE LET a == IF v.m < 0 THEN -v.m ELSE v.m
             sign == IF v.m < 0 THEN <<"-">> ELSE <<>>
             whole == DigitsOf(a \div Pow10(v.e))
             frac == IF v.e = 0 THEN <<>>
                     ELSE <<".">> \o PadDigits(a % Pow10(v.e), v.e)
         IN  sign \o whole \o frac

\* Boolean.prototype.toString.
BooleanToString(v) == IF v.m = 1 THEN <<"true">> ELSE <<"false">>

\* state.<field>.toString() of saveStateToURL.
ValueToString(v) == IF v.t = "bool" THEN BooleanToString(v) ELSE NumberToString(v)

RECURSIVE TrimStart(_)
TrimStart(text) ==
    IF Len(text) > 0 /\ Head(text) = " " THEN TrimStart(Tail(text)) ELSE text

\* The global parseFloat: leading white space is skipped, then the longest
\* prefix that is a decimal literal (sign, digits, fraction, exponent) or a
\* signed Infinity is read; NaN when there is none.
ParseFloat(text) ==
    LET t1 == TrimStart(text)
        signed == Len(t1) > 0 /\ Head(t1) \in {"+", "-"}
        sign == IF Len(t1) > 0 /\ Head(t1) = "-" THEN -1 ELSE 1
        t2 == IF signed THEN Tail(t1) ELSE t1
        ip == DigitPrefix(t2)
        r1 == SubSeq(t2, Len(ip) + 1, Len(t2))
        fp == IF Len(r1) > 0 /\ Head(r1) = "." THEN DigitPrefix(Tail(r1))
              ELSE <<>>
        dot == IF Len(r1) > 0 /\ Head(r1) = "." THEN 1 ELSE 0
        r2 == SubSeq(r1, dot + Len(fp) + 1, Len(r1))
        marked == Len(r2) > 0 /\ Head(r2) \in {"e", "E"}
        r3 == IF marked THEN Tail(r2) ELSE <<>>
        esigned == Len(r3) > 0 /\ Head(r3) \in {"+", "-"}
        esign == IF Len(r3) > 0 /\ Head(r3) = "-" THEN -1 ELSE 1
        ep == DigitPrefix(IF esigned THEN Tail(r3) ELSE r3)
        k == esign * NatOf(ep) - Len(fp)
        mant == sign * NatOf(ip \o fp)
    IN  IF Len(t2) > 0 /\ Head(t2) = "Infinity" THEN Infinite(sign)
        ELSE IF Len(ip) = 0 /\ Len(fp) = 0 THEN NaN
        ELSE IF k >= 0 THEN Normal(mant * Pow10(k), 0)
        ELSE Normal(mant, -k)

\* isNaN of a number.
IsNaN(v) == v.t = "nan"

\* a < b for two numbers that are not NaN.
Less(a, b) ==
    IF a.t = "inf" THEN a.m < 0 /\ ~(b.t = "inf" /\ b.m < 0)
    ELSE IF b.t = "inf" THEN b.m > 0
    ELSE a.m * Pow10(b.e) < b.m * Pow10(a.e)

\* Math.min and Math.max of two numbers; NaN if either is NaN.
MathMin(a, b) == IF IsNaN(a) \/ IsNaN(b) THEN NaN ELSE IF Less(b, a) THEN b ELSE a
MathMax(a, b) == IF IsNaN(a) \/ IsNaN(b) THEN NaN ELSE IF Less(a, b) THEN b ELSE a

\* A clamp that forgets the upper bound: what the mutated codec uses.
ClampLowerOnly(value, min, max) == MathMax(min, value)

\* clampParameter of audioUtils.
ClampParameter(value, min, max) == MathMax(min, MathMin(max, value))

\* value ?? "": null becomes the empty string.
Coalesce(v) == IF v.t = "null" THEN Str(<<>>) ELSE v

\* value || fallback for a string or null: null and "" are falsy.
OrElse(v, fallback) == IF v.t = "null" \/ Len(v.s) = 0 THEN Str(fallback) ELSE v

\* value === "true".
IsTrueText(v) == Bool(v.t = "str" /\ v.s = <<"true">>)

\* parseAndClamp of part_006.
ParseAndClamp(value, min, max, defaultValue) ==
    LET parsed == ParseFloat(Coalesce(value).s)
    IN  IF IsNaN(parsed) THEN defaultValue ELSE ClampParameter(parsed, min, max)

\* parseOrDefault of part_006.
ParseOrDefault(value, defaultValue) ==
    LET parsed == ParseFloat(Coalesce(value).s)
    IN  IF IsNaN(parsed) THEN defaultValue ELSE parsed

\* new URLSearchParams(search): the non-empty segments, in order.
URLSearchParams(search) == SelectSeq(search, LAMBDA seg : Len(seg) > 0)

\* params.has(key) and params.get(key): the first pair of that key, or null.
Has(params, key) == \E i \in 1..Len(params) : params[i][1] = key
Get(params, key) ==
    IF Has(params, key)
    THEN LET i == CHOOSE j \in 1..Len(params) :
                      /\ params[j][1] = key
                      /\ \A h \in 1..(j - 1) : params[h][1] # key
         IN  Str(params[i][2])
    ELSE Null

\* A run of params.set(key, text) calls on a new URLSearchParams: one pair
\* for each key, placed where the key was first set and holding the text
\* it was last set to.
SetCalls(calls) ==
    LET firsts == SelectSeq([i \in 1..Len(calls) |-> i],
                            LAMBDA i : \A h \in 1..(i - 1) : calls[h][1] # calls[i][1])
        LastOf(key) == CHOOSE i \in 1..Len(calls) :
                           /\ calls[i][1] = key
                           /\ \A h \in (i + 1)..Len(calls) : calls[h][1] # key
    IN  [j \in 1..Len(firsts) |->
            <<calls[firsts[j]][1], calls[LastOf(calls[firsts[j]][1])][2]>>]

\* The params.set calls of saveStateToURL, in order: <<key, field, how>>,
\* where a string field is written as it is and any other by toString().
SaveFields == <<
    <<"osc1_waveform", "oscillator1.waveform", "raw">>,
    <<"osc1_freq", "oscillator1.frequency", "toString">>,
    <<"osc1_range", "oscillator1.range", "raw">>,
    <<"osc1_enabled", "oscillator1.enabled", "toString">>,
    <<"osc2_waveform", "oscillator2.waveform", "raw">>,
    <<"osc2_freq", "oscillator2.frequency", "toString">>,
    <<"osc2_range", "oscillator2.range", "raw">>,
    <<"osc2_enabled", "oscillator2.enabled", "toString">>,
    <<"osc3_waveform", "oscillator3.waveform", "raw">>,
    <<"osc3_freq", "oscillator3.frequency", "toString">>,
    <<"osc3_range", "oscillator3.range", "raw">>,
    <<"osc3_enabled", "oscillator3.enabled", "toString">>,
    <<"mix_osc1_enabled", "mixer.osc1.enabled", "toString">>,
    <<"mix_osc1_vol", "mixer.osc1.volume", "toString">>,
    <<"mix_osc2_enabled", "mixer.osc2.enabled", "toString">>,
    <<"mix_osc2_vol", "mixer.osc2.volume", "toString">>,
    <<"mix_osc3_enabled", "mixer.osc3.enabled", "toString">>,
    <<"mix_osc3_vol", "mixer.osc3.volume", "toString">>,
    <<"mix_noise_enabled", "mixer.noise.enabled", "toString">>,
    <<"mix_noise_vol", "mixer.noise.volume", "toString">>,
    <<"mix_noise_type", "mixer.noise.noiseType", "raw">>,
    <<"mix_ext_enabled", "mixer.external.enabled", "toString">>,
    <<"mix_ext_vol", "mixer.external.volume", "toString">>,
    <<"filter_cutoff", "filterCutoff", "toString">>,
    <<"filter_emphasis", "filterEmphasis", "toString">>,
    <<"filter_contour", "filterContourAmount", "toString">>,
    <<"filter_attack", "filterAttack", "toString">>,
    <<"filter_decay", "filterDecay", "toString">>,
    <<"filter_sustain", "filterSustain", "toString">>,
    <<"filter_mod_on", "filterModulationOn", "toString">>,
    <<"loudness_attack", "loudnessAttack", "toString">>,
    <<"loudness_decay", "loudnessDecay", "toString">>,
    <<"loudness_sustain", "loudnessSustain", "toString">>,
    <<"lfo_waveform", "lfoWaveform", "raw">>,
    <<"lfo_rate", "lfoRate", "toString">>,
    <<"mod_mix", "modMix", "toString">>,
    <<"osc_mod_on", "oscillatorModulationOn", "toString">>,
    <<"glide_on", "glideOn", "toString">>,
    <<"glide_time", "glideTime", "toString">>,
    <<"main_volume", "mainVolume", "toString">>,
    <<"main_active", "isMainActive", "toString">>,
    <<"keyboard_control1", "keyboardControl1", "toString">>,
    <<"keyboard_control2", "keyboardControl2", "toString">>,
    <<"osc3_control", "osc3Control", "toString">>,
    <<"osc3_filter_eg", "osc3FilterEgSwitch", "toString">>,
    <<"noise_lfo_switch", "noiseLfoSwitch", "toString">>,
    <<"decay_switch", "decaySwitchOn", "toString">>,
    <<"master_tune", "masterTune", "toString">>,
    <<"pitch_wheel", "pitchWheel", "toString">>,
    <<"mod_wheel", "modWheel", "toString">>,
    <<"tuner_on", "tunerOn", "toString">>,
    <<"aux_enabled", "auxOutput.enabled", "toString">>,
    <<"aux_volume", "auxOutput.volume", "toString">> >>

\* The if (params.has(anchor)) blocks of loadStateFromURL, in order, each
\* with its assignments <<field, key, decoder, default>>:
\*   "get"        params.get(key)
\*   "getOr"      params.get(key) || default
\*   "isTrue"     params.get(key) === "true"
\*   "floatOr"    parseFloat(params.get(key) || default)
\*   "clamp"      parseAndClamp(params.get(key), -4, 4, default)
\*   "orDefault"  parseOrDefault(params.get(key), default)
Oscillator(name, prefix, freqDefault) ==
    [anchor |-> prefix \o "_waveform", fields |-> <<
        <<name \o ".waveform", prefix \o "_waveform", "get", Null>>,
        <<name \o ".frequency", prefix \o "_freq", "floatOr", Str(freqDefault)>>,
        <<name \o ".range", prefix \o "_range", "get", Null>>,
        <<name \o ".enabled", prefix \o "_enabled", "isTrue", Null>> >>]

LoadGroups == <<
    Oscillator("oscillator1", "osc1", <<"4", "4", "0">>),
    Oscillator("oscillator2", "osc2", <<"0">>),
    Oscillator("oscillator3", "osc3", <<"0">>),
    [anchor |-> "mix_osc1_enabled", fields |-> <<
        <<"mixer.osc1.enabled", "mix_osc1_enabled", "isTrue", Null>>,
        <<"mixer.osc1.volume", "mix_osc1_vol", "floatOr", Str(<<"0">>)>>,
        <<"mixer.osc2.enabled", "mix_osc2_enabled", "isTrue", Null>>,
        <<"mixer.osc2.volume", "mix_osc2_vol", "floatOr", Str(<<"0">>)>>,
        <<"mixer.osc3.enabled", "mix_osc3_enabled", "isTrue", Null>>,
        <<"mixer.osc3.volume", "mix_osc3_vol", "floatOr", Str(<<"0">>)>>,
        <<"mixer.noise.enabled", "mix_noise_enabled", "isTrue", Null>>,
        <<"mixer.noise.volume", "mix_noise_vol", "floatOr", Str(<<"0">>)>>,
        <<"mixer.noise.noiseType", "mix_noise_type", "getOr", Str(<<"white">>)>>,
        <<"mixer.external.enabled", "mix_ext_enabled", "isTrue", Null>>,
        <<"mixer.external.volume", "mix_ext_vol", "floatOr", Str(<<"0">>)>> >>],
    [anchor |-> "filter_cutoff", fields |-> <<
        <<"filterCutoff", "filter_cutoff", "clamp", Num(0, 0)>>,
        <<"filterEmphasis", "filter_emphasis", "orDefault", Num(5, 0)>>,
        <<"filterContourAmount", "filter_contour", "orDefault", Num(5, 0)>>,
        <<"filterAttack", "filter_attack", "orDefault", Num(5, 1)>>,
        <<"filterDecay", "filter_decay", "orDefault", Num(0, 0)>>,
        <<"filterSustain", "filter_sustain", "orDefault", Num(0, 0)>>,
        <<"filterModulationOn", "filter_mod_on", "isTrue", Null>> >>],
    [anchor |-> "loudness_attack", fields |-> <<
        <<"loudnessAttack", "loudness_attack", "orDefault", Num(5, 1)>>,
        <<"loudnessDecay", "loudness_decay", "orDefault", Num(0, 0)>>,
        <<"loudnessSustain", "loudness_sustain", "orDefault", Num(5, 0)>> >>],
    [anchor |-> "lfo_waveform", fields |-> <<
        <<"lfoWaveform", "lfo_waveform", "get", Null>>,
        <<"lfoRate", "lfo_rate", "orDefault", Num(5, 0)>>,
        <<"modMix", "mod_mix", "orDefault", Num(0, 0)>>,
        <<"oscillatorModulationOn", "osc_mod_on", "isTrue", Null>> >>],
    [anchor |-> "glide_on", fields |-> <<
        <<"glideOn", "glide_on", "isTrue", Null>>,
        <<"glideTime", "glide_time", "orDefault", Num(1, 1)>> >>],
    [anchor |-> "main_volume", fields |-> <<
        <<"mainVolume", "main_volume", "orDefault", Num(25, 1)>>,
        <<"isMainActive", "main_active", "isTrue", Null>> >>],
    [anchor |-> "keyboard_control1", fields |-> <<
        <<"keyboardControl1", "keyboard_control1", "isTrue", Null>>,
        <<"keyboardControl2", "keyboard_control2", "isTrue", Null>> >>],
    [anchor |-> "osc3_control", fields |-> <<
        <<"osc3Control", "osc3_control", "isTrue", Null>>,
        <<"osc3FilterEgSwitch", "osc3_filter_eg", "isTrue", Null>> >>],
    [anchor |-> "noise_lfo_switch", fields |-> <<
        <<"noiseLfoSwitch", "noise_lfo_switch", "isTrue", Null>>,
        <<"decaySwitchOn", "decay_switch", "isTrue", Null>> >>],
    [anchor |-> "master_tune", fields |-> <<
        <<"masterTune", "master_tune", "orDefault", Num(0, 0)>>,
        <<"pitchWheel", "pitch_wheel", "orDefault", Num(50, 0)>>,
        <<"modWheel", "mod_wheel", "orDefault", Num(50, 0)>> >>],
    [anchor |-> "tuner_on", fields |-> <<
        <<"tunerOn", "tuner_on", "isTrue", Null>> >>],
    [anchor |-> "aux_enabled", fields |-> <<
        <<"auxOutput.enabled", "aux_enabled", "isTrue", Null>>,
        <<"auxOutput.volume", "aux_volume", "orDefault", Num(0, 0)>> >>] >>

Range(seq) == {seq[i] : i \in 1..Len(seq)}

\* One assignment of loadStateFromURL.
Decode(params, entry) ==
    LET got == Get(params, entry[2])
        how == entry[3]
        default == entry[4]
    IN  CASE how = "get" -> got
          [] how = "getOr" -> OrElse(got, default.s)
          [] how = "isTrue" -> IsTrueText(got)
          [] how = "floatOr" -> ParseFloat(OrElse(got, default.s).s)
          [] how = "clamp" -> ParseAndClamp(got, Num(-4, 0), Num(4, 0), default)
          [] how = "orDefault" -> ParseOrDefault(got, default)

\* The test that never finds the parameters empty: what the mutated codec
\* uses.
NoParametersNever(params) == FALSE

\* params.toString() === "": the parameters serialise to the empty string
\* exactly when there is no pair.
NoParameters(params) == Len(params) = 0

\* The group test that ignores the anchor: what the mutated codec uses.
GroupPresentAlways(params, group) == TRUE

\* params.has(<anchor>) of one block.
GroupPresent(params, group) == Has(params, group.anchor)

\* The assignments loadStateFromURL makes for these parameters.
Assignments(params) ==
    UNION {Range(LoadGroups[g].fields) :
              g \in {h \in 1..Len(LoadGroups) : GroupPresent(params, LoadGroups[h])}}

\* loadStateFromURL on window.location.search: null, or the partial state as
\* a function on the fields that were assigned.
LoadStateFromURLResult(search) ==
    LET params == URLSearchParams(search)
        todo == Assignments(params)
    IN  IF NoParameters(params) THEN [null |-> TRUE, state |-> [f \in {} |-> Null]]
        ELSE [null |-> FALSE,
              state |-> [f \in {e[1] : e \in todo} |->
                            Decode(params, CHOOSE e \in todo : e[1] = f)]]

\* saveStateToURL: every field is set on a new URLSearchParams, a string
\* as it is and a number or boolean through toString(); the result is the
\* query of these pairs.
SaveStateToURLResult(state) ==
    SetCalls([i \in 1..Len(SaveFields) |->
                 LET entry == SaveFields[i]
                     v == state[entry[2]]
                 IN  <<entry[1], IF entry[3] = "raw" THEN v.s ELSE ValueToString(v)>>])

(* --------------------------- codec: inputs ----------------------------- *)

\* The enumerations of store/types/synth (src/unnamed/part_001), as texts.
OscillatorWaveform ==
    <<<<"triangle">>, <<"tri_saw">>, <<"sawtooth">>, <<"rev_saw">>,
      <<"pulse1">>, <<"pulse2">>, <<"pulse3">>>>
OscillatorRange ==
    <<<<"3", "2">>, <<"1", "6">>, <<"8">>, <<"4">>, <<"2">>, <<"lo">>>>
NoiseType == <<<<"white">>, <<"pink">>>>
LfoWaveform == <<<<"triangle">>, <<"square">>>>

\* The fields of SynthState that the codec writes, by declared type.
OscillatorNames == {"oscillator1", "oscillator2", "oscillator3"}
WaveformFields == {o \o ".waveform" : o \in OscillatorNames}
RangeFields == {o \o ".range" : o \in OscillatorNames}
StringFields ==
    WaveformFields \cup RangeFields \cup {"mixer.noise.noiseType", "lfoWaveform"}
NumberFields ==
    {o \o ".frequency" : o \in OscillatorNames} \cup
    {"mixer.osc1.volume", "mixer.osc2.volume", "mixer.osc3.volume",
     "mixer.noise.volume", "mixer.external.volume",
     "filterCutoff", "filterEmphasis", "filterContourAmount", "filterAttack",
     "filterDecay", "filterSustain",
     "loudnessAttack", "loudnessDecay", "loudnessSustain",
     "lfoRate", "modMix", "glideTime", "mainVolume",
     "masterTune", "pitchWheel", "modWheel", "auxOutput.volume"}
BooleanFields ==
    {o \o ".enabled" : o \in OscillatorNames} \cup
    {"mixer.osc1.enabled", "mixer.osc2.enabled", "mixer.osc3.enabled",
     "mixer.noise.enabled", "mixer.external.enabled",
     "filterModulationOn", "oscillatorModulationOn", "glideOn", "isMainActive",
     "keyboardControl1", "keyboardControl2", "osc3Control",
     "osc3FilterEgSwitch", "noiseLfoSwitch", "decaySwitchOn", "tunerOn",
     "auxOutput.enabled"}
SynthFields == StringFields \cup NumberFields \cup BooleanFields

\* The finite numbers the sampled states take: 0, 2.5, 0.5, -4, 4, 440, -7,
\* 0.125 and -0.25.
NumberSamples ==
    <<Num(0, 0), Num(25, 1), Num(5, 1), Num(-4, 0), Num(4, 0), Num(440, 0),
      Num(-7, 0), Num(125, 3), Num(-25, 2)>>

\* filterCutoff is valid from -4 to 4.
ValidCutoff(v) == ~Less(v, Num(-4, 0)) /\ ~Less(Num(4, 0), v)

\* The valid values sampled for a field, in a fixed order.
FieldSamples(f) ==
    IF f \in WaveformFields THEN [i \in DOMAIN OscillatorWaveform |-> Str(OscillatorWaveform[i])]
    ELSE IF f \in RangeFields THEN [i \in DOMAIN OscillatorRange |-> Str(OscillatorRange[i])]
    ELSE IF f = "mixer.noise.noiseType" THEN [i \in DOMAIN NoiseType |-> Str(NoiseType[i])]
    ELSE IF f = "lfoWaveform" THEN [i \in DOMAIN LfoWaveform |-> Str(LfoWaveform[i])]
    ELSE IF f = "filterCutoff" THEN SelectSeq(NumberSamples, ValidCutoff)
    ELSE IF f \in NumberFields THEN NumberSamples
    ELSE <<Bool(FALSE), Bool(TRUE)>>

\* Two fully populated valid states, and every state that differs from one
\* of them in one field.
BaseStates ==
    { [f \in SynthFields |-> FieldSamples(f)[1]],
      [f \in SynthFields |-> FieldSamples(f)[2]] }
SynthStates ==
    { [b EXCEPT ![x[1]] = x[2]] :
        b \in BaseStates,
        x \in UNION {{f} \X Range(FieldSamples(f)) : f \in SynthFields} }

\* The keys a foreign query is made of: the codec's own and one other.
QueryKeys == {e[1] : e \in Range(SaveFields)} \cup {"utm_source"}

\* The texts a foreign query gives a key: "", "abc", "4", "-4", "9", "-9.5",
\* "0.5", "4px", "true", "Infinity", "-Infinity", "NaN", "1e1", " 2".
QueryTexts ==
    { <<>>, <<"abc">>, <<"4">>, <<"-", "4">>, <<"9">>, <<"-", "9", ".", "5">>,
      <<"0", ".", "5">>, <<"4", "px">>, <<"true">>, <<"Infinity">>,
      <<"-", "Infinity">>, <<"NaN">>, <<"1", "e", "1">>, <<" ", "2">> }
AnchorTexts == { <<"true">>, <<"abc">> }

\* "osc1_waveform=sawtooth&osc1_freq=440&osc1_range=8&osc1_enabled=true".
ExampleQuery ==
    << <<"osc1_waveform", <<"sawtooth">>>>, <<"osc1_freq", <<"4", "4", "0">>>>,
       <<"osc1_range", <<"8">>>>, <<"osc1_enabled", <<"true">>>> >>

\* The foreign queries: "", "&", the example, every single pair, and every
\* anchor pair followed by any pair.
Queries ==
    {<<>>, <<<<>>, <<>>>>, ExampleQuery}
    \cup {<<p>> : p \in QueryKeys \X QueryTexts}
    \cup ({LoadGroups[g].anchor : g \in DOMAIN LoadGroups} \X AnchorTexts)
         \X (QueryKeys \X QueryTexts)

(* ---------------------------- codec: store ---------------------------- *)

\* The top-level fields of the state that are objects, each with the paths
\* of the fields inside it.
ObjectFields ==
    [t \in {"oscillator1", "oscillator2", "oscillator3", "mixer", "auxOutput"} |->
        IF t = "mixer"
        THEN {"mixer.osc1.enabled", "mixer.osc1.volume", "mixer.osc2.enabled",
              "mixer.osc2.volume", "mixer.osc3.enabled", "mixer.osc3.volume",
              "mixer.noise.enabled", "mixer.noise.volume", "mixer.noise.noiseType",
              "mixer.external.enabled", "mixer.external.volume"}
        ELSE IF t = "auxOutput" THEN {"auxOutput.enabled", "auxOutput.volume"}
        ELSE {t \o ".waveform", t \o ".frequency", t \o ".range", t \o ".enabled"}]

\* The top-level field a path lies in.
TopLevel(f) ==
    IF \E t \in DOMAIN ObjectFields : f \in ObjectFields[t]
    THEN CHOOSE t \in DOMAIN ObjectFields : f \in ObjectFields[t]
    ELSE f

\* A preset that replaces the whole state: what the mutated store does.
loadPresetOnly(state, preset) == preset

\* loadPreset: { ...state, ...preset }.  Each top-level field of the preset
\* replaces that field of the state whole, whatever was inside it; the
\* other fields of the state stay.
loadPreset(state, preset) ==
    LET replaced == {TopLevel(f) : f \in DOMAIN preset}
        kept == {f \in DOMAIN state : TopLevel(f) \notin replaced}
    IN  [f \in kept \cup DOMAIN preset |->
            IF f \in DOMAIN preset THEN preset[f] ELSE state[f]]

(* --------------------------- codec: actions ---------------------------- *)

NoState == [f \in {} |-> Null]
NoResult == [null |-> TRUE, state |-> NoState]

\* updateURLWithState(state) for some state: the address takes the query
\* saveStateToURL returns.
UpdateURLWithState ==
    /\ url.phase = "idle"
    /\ \E state \in SynthStates :
          url' = [phase |-> "address", origin |-> "saved", state |-> state,
                  search |-> SaveStateToURLResult(state), result |-> NoResult,
                  applied |-> FALSE, store |-> url.store]
    /\ UNCHANGED <<poolAll, param, num, held>>

\* The page is opened at an address whose query the program did not write.
Navigate ==
    /\ url.phase = "idle"
    /\ \E search \in Queries :
          url' = [phase |-> "address", origin |-> "foreign", state |-> NoState,
                  search |-> search, result |-> NoResult, applied |-> FALSE,
                  store |-> url.store]
    /\ UNCHANGED <<poolAll, param, num, held>>

\* The body of the mount effect for what loadStateFromURL returned: the
\* result is kept, and loadPreset is called with it when it is not null.
MountEffect(u, urlState) ==
    [u EXCEPT !.phase = "loaded", !.result = urlState,
              !.applied = ~urlState.null,
              !.store = IF urlState.null THEN @
                        ELSE loadPreset(@, urlState.state)]

\* The mount effect of useURLSync, which runs once: loadStateFromURL, then
\* loadPreset when the result is not null.
UseURLSync ==
    /\ url.phase = "address"
    /\ url' = MountEffect(url, LoadStateFromURLResult(url.search))
    /\ UNCHANGED <<poolAll, param, num, held>>

NextCodec ==
    \/ UpdateURLWithState
    \/ Navigate
    \/ UseURLSync

SpecCodec == Init /\ [][NextCodec]_vars

(* -------------------------- codec: properties -------------------------- *)

\* The text the query gives a key first, and whether it gives one at all
\* (read off the query itself).
Pairs(search) == {search[i] : i \in {j \in 1..Len(search) : Len(search[j]) > 0}}
Present(search, key) == \E p \in Pairs(search) : p[1] = key
FirstText(search, key) ==
    LET i == CHOOSE j \in 1..Len(search) :
                 /\ Len(search[j]) > 0 /\ search[j][1] = key
                 /\ \A h \in 1..(j - 1) : Len(search[h]) = 0 \/ search[h][1] # key
    IN  search[i][2]

Loaded == url.phase = "loaded"

\* C14: decoding the query that saveStateToURL writes for a fully populated
\* valid state gives an overlay in which every written field equals its
\* value in that state.
C14_RoundTrip ==
    (Loaded /\ url.origin = "saved") =>
        /\ ~url.result.null
        /\ \A e \in Range(SaveFields) :
              /\ e[2] \in DOMAIN url.result.state
              /\ url.result.state[e[2]] = url.state[e[2]]

\* A state with a negative fraction in one field and a last-of-enumeration
\* waveform has made the round trip.
C14_Witness ==
    /\ Loaded /\ url.origin = "saved"
    /\ \E f \in NumberFields : url.state[f] = Num(-25, 2) /\ url.result.state[f] = Num(-25, 2)
    /\ url.result.state["oscillator2.waveform"] = Str(<<"tri_saw">>)

\* C15 as stated: decoding the empty query string returns an overlay object
\* in which no field is set.
C15_EmptyGivesEmptyOverlay ==
    (Loaded /\ Len(url.search) = 0) =>
        (~url.result.null /\ DOMAIN url.result.state = {})

\* C15 amended: decoding the empty query string returns null, not an
\* overlay, and useURLSync then does not call loadPreset.
C15_EmptyGivesNull ==
    (Loaded /\ Len(url.search) = 0) => (url.result.null /\ ~url.applied)

\* The page was opened with the empty query and the effect has run.
C15_Witness == Loaded /\ Len(url.search) = 0 /\ url.result.null

\* C16: for a non-empty query string, the fields of a group are in the
\* decoded overlay if and only if the group's anchor key is in the query;
\* the query of the four osc1_* keys gives the oscillator1 group alone.
C16_GroupIffAnchor ==
    (Loaded /\ Len(url.search) > 0) =>
        /\ \A g \in DOMAIN LoadGroups : \A e \in Range(LoadGroups[g].fields) :
              e[1] \in DOMAIN url.result.state <=> Present(url.search, LoadGroups[g].anchor)
        /\ url.search = ExampleQuery =>
              DOMAIN url.result.state =
                  {"oscillator1.waveform", "oscillator1.frequency",
                   "oscillator1.range", "oscillator1.enabled"}

\* The query of the four osc1_* keys has been decoded to the oscillator1
\* group.
C16_Witness ==
    /\ Loaded /\ url.search = ExampleQuery
    /\ "oscillator1.range" \in DOMAIN url.result.state
    /\ "oscillator2.range" \notin DOMAIN url.result.state

\* C17: a decoded filterCutoff is within -4..4 whatever the text of
\* filter_cutoff: a number in the range is kept, one outside it becomes the
\* nearer bound, and text that is no number gives 0.
C17_CutoffClamped ==
    (Loaded /\ "filterCutoff" \in DOMAIN url.result.state) =>
        LET v == url.result.state["filterCutoff"]
            p == ParseFloat(FirstText(url.search, "filter_cutoff"))
            lo == Num(-4, 0)
            hi == Num(4, 0)
        IN  /\ v.t = "num" /\ ~Less(v, lo) /\ ~Less(hi, v)
            /\ IsNaN(p) => v = Num(0, 0)
            /\ (~IsNaN(p) /\ Less(p, lo)) => v = lo
            /\ (~IsNaN(p) /\ Less(hi, p)) => v = hi
            /\ (~IsNaN(p) /\ ~Less(p, lo) /\ ~Less(hi, p)) => v = p

\* filter_cutoff=9 has been decoded to 4.
C17_Witness ==
    /\ Loaded /\ url.origin = "foreign" /\ Present(url.search, "filter_cutoff")
    /\ FirstText(url.search, "filter_cutoff") = <<"9">>
    /\ url.result.state["filterCutoff"] = Num(4, 0)

\* The number a numeric assignment falls back to.
DefaultNumber(e) == IF e[3] = "floatOr" THEN ParseFloat(e[4].s) ELSE e[4]

\* C18: in every group whose anchor key is present, a numeric field whose
\* key is missing or whose text is not a number decodes to the field's
\* default number.
C18_BadFieldsDefault ==
    (Loaded /\ ~url.result.null) =>
        \A g \in DOMAIN LoadGroups : \A e \in Range(LoadGroups[g].fields) :
            ( /\ Present(url.search, LoadGroups[g].anchor)
              /\ e[3] \in {"floatOr", "clamp", "orDefault"}
              /\ \/ ~Present(url.search, e[2])
                 \/ IsNaN(ParseFloat(FirstText(url.search, e[2]))) )
            => url.result.state[e[1]] = DefaultNumber(e)

(* ========================= numeric conversions ========================= *)
(* The pitch-bend conversions of src/src/types/README.md and the note and  *)
(* frequency conversions of src/src/utils/midiUtils.ts.  JavaScript        *)
(* numbers are doubles.  The pitch-bend arithmetic (subtract, divide,      *)
(* multiply, add) is done here on exact fractions: a double result is      *)
(* within 2^-52 of the exact one in relative terms, far inside the half    *)
(* unit that decides Math.round.  A frequency is m * 2^x / 10^6 with m an  *)
(* integer, so Math.pow(2, k / 12) is a six-digit twelfth root of two      *)
(* times a power of two, and the frequency the program holds may be a      *)
(* millionth of A4 * 2^x away from it in either direction.                 *)
(* ======================================================================= *)

\* SIGNAL_CONSTANTS and MIDI.
MIN_MIDI_NOTE == 0
MAX_MIDI_NOTE == 127
MIN_PITCH_BEND == 0
MAX_PITCH_BEND == 16383
A4_FREQUENCY == 440
A4_MIDI_NOTE == 69

Abs(x) == IF x < 0 THEN -x ELSE x

RECURSIVE Gcd(_, _)
Gcd(a, b) == IF b = 0 THEN a ELSE Gcd(b, a % b)

\* The fraction n / d in lowest terms with a positive denominator.
Rat(n, d) ==
    LET g == Gcd(Abs(n), Abs(d))
        s == IF d < 0 THEN -1 ELSE 1
    IN  [n |-> (s * n) \div g, d |-> (s * d) \div g]
Whole(k) == Rat(k, 1)
RatAdd(a, b) == Rat(a.n * b.d + b.n * a.d, a.d * b.d)
RatSub(a, b) == Rat(a.n * b.d - b.n * a.d, a.d * b.d)
RatMul(a, b) == Rat(a.n * b.n, a.d * b.d)
RatDiv(a, b) == Rat(a.n * b.d, a.d * b.n)

\* Math.round of a fraction: the nearest integer, a half going up.
MathRound(x) == (2 * x.n + x.d) \div (2 * x.d)

\* SIGNAL_CONSTANTS.CENTER_PITCH_BEND, 8191.5.
CENTER_PITCH_BEND == Rat(16383, 2)

\* A conversion over a range of 12 semitones: what the mutated program
\* computes.
pitchBendToSemitonesOctave(bend) ==
    LET normalized == RatDiv(RatSub(Whole(bend), CENTER_PITCH_BEND), CENTER_PITCH_BEND)
    IN  RatMul(normalized, Whole(12))

pitchBendToSemitones(bend) ==
    LET normalized == RatDiv(RatSub(Whole(bend), CENTER_PITCH_BEND), CENTER_PITCH_BEND)
    IN  RatMul(normalized, Whole(2))

semitonesToPitchBend(semitones) ==
    LET normalized == RatDiv(semitones, Whole(2))
    IN  MathRound(RatMul(RatAdd(normalized, Whole(1)), CENTER_PITCH_BEND))

\* 2^(i/12) for i = 0..11 and 2^((j - 1/2)/12) for j = 0..12, in millionths.
TwelfthRoots ==
    <<1000000, 1059463, 1122462, 1189207, 1259921, 1334840,
      1414214, 1498307, 1587401, 1681793, 1781797, 1887749>>
HalfSteps ==
    <<971532, 1029302, 1090508, 1155353, 1224054, 1296840, 1373954,
      1455653, 1542211, 1633915, 1731073, 1834008, 1943064>>

\* Math.pow(2, k / 12) for an integer k.
MathPow2Twelfths(k) == [m |-> TwelfthRoots[(k % 12) + 1], x |-> k \div 12]

\* The value m * 2^x / 10^6 written with m from 1000000 to 1999999.
RECURSIVE Normalised(_)
Normalised(f) ==
    IF f.m >= 2 * TwelfthRoots[1] THEN Normalised([m |-> f.m \div 2, x |-> f.x + 1])
    ELSE IF f.m < TwelfthRoots[1] THEN Normalised([m |-> 2 * f.m, x |-> f.x - 1])
    ELSE f

\* Math.floor(12 * Math.log2(r)) for r = m / 10^6 from 1 up to 2: what the
\* mutated program uses for the rounding.
FlooredTwelfths(m) ==
    CHOOSE j \in 0..11 :
        /\ TwelfthRoots[j + 1] <= m
        /\ j = 11 \/ m < TwelfthRoots[j + 2]

\* Math.round(12 * Math.log2(r)) for r = m / 10^6 from 1 up to 2.
RoundedTwelfths(m) ==
    CHOOSE j \in 0..12 :
        /\ HalfSteps[j + 1] <= m
        /\ j = 12 \/ m < HalfSteps[j + 2]

midiNoteToFrequency(midiNote) ==
    LET pow == MathPow2Twelfths(midiNote - A4_MIDI_NOTE)
    IN  [m |-> A4_FREQUENCY * pow.m, x |-> pow.x]

\* Math.round(12 * Math.log2(frequency / A4) + 69): 12 * log2 of a value
\* m * 2^x / 10^6 is 12 * x plus 12 * log2(m / 10^6), and adding the
\* integer 12 * x + 69 does not change how the rest rounds.
frequencyToMidiNote(frequency) ==
    LET ratio == Normalised([m |-> frequency.m \div A4_FREQUENCY, x |-> frequency.x])
    IN  12 * ratio.x + A4_MIDI_NOTE + RoundedTwelfths(ratio.m)

\* The distance, in millionths of A4 * 2^x, between the double the program
\* holds and the frequency computed here.
RoundingErrors == {-1, 0, 1}

(* ------------------------- conversions: actions ------------------------ *)

BendToSemitones ==
    /\ num.phase = "idle"
    /\ \E bend \in MIN_PITCH_BEND..MAX_PITCH_BEND :
          num' = [phase |-> "semitones", input |-> bend,
                  mid |-> pitchBendToSemitones(bend), output |-> 0]
    /\ UNCHANGED <<poolAll, param, url, held>>

SemitonesToBend ==
    /\ num.phase = "semitones"
    /\ num' = [num EXCEPT !.phase = "bend", !.output = semitonesToPitchBend(num.mid)]
    /\ UNCHANGED <<poolAll, param, url, held>>

NoteToFrequency ==
    /\ num.phase = "idle"
    /\ \E midiNote \in MIN_MIDI_NOTE..MAX_MIDI_NOTE : \E err \in RoundingErrors :
          LET f == midiNoteToFrequency(midiNote)
          IN  num' = [phase |-> "frequency", input |-> midiNote,
                      mid |-> [f EXCEPT !.m = @ + A4_FREQUENCY * err], output |-> 0]
    /\ UNCHANGED <<poolAll, param, url, held>>

FrequencyToNote ==
    /\ num.phase = "frequency"
    /\ num' = [num EXCEPT !.phase = "note", !.output = frequencyToMidiNote(num.mid)]
    /\ UNCHANGED <<poolAll, param, url, held>>

NextConvert ==
    \/ BendToSemitones
    \/ SemitonesToBend
    \/ NoteToFrequency
    \/ FrequencyToNote

SpecConvert == Init /\ [][NextConvert]_vars

(* ----------------------- conversions: properties ----------------------- *)

\* C19: for every pitch-bend value b from 0 to 16383, converting b to
\* semitones and back gives a value at most 1 away from b.
C19_BendRoundTrip ==
    num.phase = "bend" =>
        /\ num.input \in 0..16383
        /\ num.output - num.input \in -1..1

\* The largest bend, 16383, went to 2 semitones and came back.
C19_Witness ==
    /\ num.phase = "bend" /\ num.input = 16383
    /\ num.mid = Whole(2) /\ num.output = 16383

\* C20: for every MIDI note n from 0 to 127, converting n to its frequency
\* and back gives n.
C20_NoteRoundTrip ==
    num.phase = "note" => (num.input \in 0..127 /\ num.output = num.input)

\* Note 0 (three semitones above an octave boundary, 69 semitones below A4)
\* came back from a frequency one unit under the computed one.
C20_Witness ==
    /\ num.phase = "note" /\ num.input = 0 /\ num.output = 0
    /\ num.mid.x = -6 /\ num.mid.m < A4_FREQUENCY * TwelfthRoots[4]

(* =============== node pool: creation failures, bookkeeping ============= *)

\* The Error that an audioContext.createXxx() call raises, and no error.
HostError == [type |-> "Error", nodeType |-> "none", original |-> "none"]
NoError == [type |-> "none", nodeType |-> "none", original |-> "none"]

\* handleNodeCreationError(nodeType, error) of audioUtils: the structured
\* AudioError value (its message, context and timestamp are left out).
HandleNodeCreationError(nodeType, error) ==
    [type |-> "AUDIO_NODE_CREATION", nodeType |-> nodeType, original |-> error.type]

\* What leaves a getPooledNode call whose factory raised: createNewNode is
\* called outside any try block (lines 126 and 145) and nothing calls
\* handleNodeCreationError, so it is the host's error itself.
Thrown(c) == IF c.op = "getPooledNode" /\ c.threw THEN HostError ELSE NoError

\* C25: when the node factory raises during getPooledNode, the caller gets
\* the failure as the structured error of kind AUDIO_NODE_CREATION that
\* handleNodeCreationError builds for the node type.
C25_CreationErrorWrapped ==
    (last.op = "getPooledNode" /\ last.raised) =>
        /\ last.threw
        /\ Thrown(last) = HandleNodeCreationError(last.type, HostError)

\* C28: a getPooledNode call whose node creation raises, in an initialized
\* pool with pooling enabled, leaves the tracked handles, their metadata and
\* the five counters as they were.
C28_FailedCreationNoEffect ==
    [][(/\ CallStep("getPooledNode")
        /\ last'.raised
        /\ initialized
        /\ config.enablePooling)
       => (nodes' = nodes /\ stats' = stats)]_vars

\* C29: as long as resetPoolStats is not called, the number of tracked
\* handles is stats.created minus stats.disposed.
C29_TrackedIsCreatedMinusDisposed ==
    Len(nodes) = stats.created - stats.disposed

\* Two handles were registered and one of them has been disposed.
C29_Witness ==
    /\ initialized
    /\ Len(nodes) = 1
    /\ stats.created = 2
    /\ stats.disposed = 1

(* ======================= node pool: several callers ==================== *)
(* Several logical callers share the pool on one thread.  Each call runs   *)
(* to completion before the next, a caller releases only a node it holds,  *)
(* and releasing it ends the hold.                                         *)
(* ======================================================================= *)

Callers == {"a", "b"}

\* The node a getPooledNode call returned is now held by its caller; a call
\* that threw returned nothing.
Acquire(c, t, factoryFails) ==
    /\ GetPooledNodeCall(t, factoryFails)
    /\ held' = IF last'.node = 0 THEN held
               ELSE [held EXCEPT ![last'.node] = @ \cup {c}]
    /\ UNCHANGED <<param, url, num>>

\* A caller hands back a node it holds.
Release(c, n, faulty) ==
    /\ c \in held[n]
    /\ ReleaseNodeCall(n, faulty)
    /\ held' = [held EXCEPT ![n] = @ \ {c}]
    /\ UNCHANGED <<param, url, num>>

\* SpecCallers: the callers acquire and release in any order, cleanupPool
\* runs between their calls and the clock advances.
NextCallers ==
    \/ \E cfg \in PartialConfigs : InitializeNodePool(cfg)
    \/ \E c \in Callers, t \in NodeType, f \in BOOLEAN : Acquire(c, t, f)
    \/ \E c \in Callers, n \in NodeIds :
          \E faulty \in SUBSET ({n} \X {"disconnect"}) : Release(c, n, faulty)
    \/ CleanupPool({})
    \/ \E d \in TickSteps : Tick(d)

SpecCallers == Init /\ [][NextCallers]_vars

\* C27: under every interleaving of the callers' getPooledNode and
\* releaseNode calls with cleanupPool, no tracked handle is held by two
\* callers at once, and getPooledNode never returns a tracked handle whose
\* isActive flag was set.
C27_NoSharedHandle ==
    [][/\ \A n \in Tracked' : Cardinality(held'[n]) <= 1
       /\ (CallStep("getPooledNode") /\ last'.node \in Tracked)
          => ~MetaOf(nodes, last'.node).isActive]_vars

\* Caller b holds a tracked handle that caller a held before and released,
\* while a holds another tracked handle.
C27_Witness ==
    \E n \in Tracked, k \in Tracked :
        /\ n # k
        /\ held[n] = {"b"}
        /\ held[k] = {"a"}
        /\ stats.reused >= 1
        /\ last.op = "getPooledNode"
        /\ last.outcome = "hit"
        /\ last.node = n

(* ==================== note names and control mappings ================== *)
(* The helpers that turn notes into names and back, semitone offsets into  *)
(* pitch-bend values, knob positions into envelope times and cutoff        *)
(* frequencies, and values from one range into another.  A text is a       *)
(* sequence of characters.                                                 *)
(* ======================================================================= *)

\* MIDI.NOTE_NAMES, the same list as the noteNames of noteNameToMidiNote.
NOTE_NAMES ==
    << <<"C">>, <<"C", "#">>, <<"D">>, <<"D", "#">>, <<"E">>, <<"F">>,
       <<"F", "#">>, <<"G">>, <<"G", "#">>, <<"A">>, <<"A", "#">>, <<"B">> >>

\* An integer inside a template literal: its decimal digits after a minus
\* sign when it is negative.
IntegerText(k) == IF k < 0 THEN <<"-">> \o DigitsOf(-k) ELSE DigitsOf(k)

\* midiToNoteName: the name of the pitch class followed by the octave,
\* Math.floor(midiNote / 12) - 1.
midiToNoteName(midiNote) ==
    LET noteIndex == midiNote % 12
        octave == (midiNote \div 12) - 1
    IN  NOTE_NAMES[noteIndex + 1] \o IntegerText(octave)

NotDigit(c) == ~IsDigit(c)

\* String.prototype.toUpperCase on the letters of a note name.
UpperCase(c) ==
    CASE c = "a" -> "A" [] c = "b" -> "B" [] c = "c" -> "C" [] c = "d" -> "D"
      [] c = "e" -> "E" [] c = "f" -> "F" [] c = "g" -> "G" [] OTHER -> c
ToUpperCase(text) == [i \in 1..Len(text) |-> UpperCase(text[i])]

\* Array.prototype.indexOf: the first index from 0, -1 when there is none.
IndexOf(seq, x) ==
    IF \E i \in 1..Len(seq) : seq[i] = x
    THEN (CHOOSE i \in 1..Len(seq) :
              seq[i] = x /\ \A j \in 1..(i - 1) : seq[j] # x) - 1
    ELSE -1

\* noteNameToMidiNote: the index of the upper-cased name, -1 for a text that
\* is not a name.
noteNameToMidiNote(noteName) == IndexOf(NOTE_NAMES, ToUpperCase(noteName))

\* parseInt in base 10: leading white space is skipped, then an optional
\* sign and the longest run of digits are read; NaN when there is no digit.
ParseInt(text) ==
    LET t1 == TrimStart(text)
        signed == Len(t1) > 0 /\ Head(t1) \in {"+", "-"}
        sign == IF Len(t1) > 0 /\ Head(t1) = "-" THEN -1 ELSE 1
        ds == DigitPrefix(IF signed THEN Tail(t1) ELSE t1)
    IN  IF Len(ds) = 0 THEN NaN ELSE Num(sign * NatOf(ds), 0)

\* noteToMidiNote: the name is the note without its digits, the octave is
\* parseInt of the note without everything but its digits.
noteToMidiNote(note) ==
    LET noteName == SelectSeq(note, NotDigit)
        octave == ParseInt(SelectSeq(note, IsDigit))
        noteNumber == noteNameToMidiNote(noteName)
    IN  IF IsNaN(octave) THEN NaN
        ELSE Num(noteNumber + (octave.m + 1) * 12, 0)

\* The semitone offsets that are tried are the multiples of 1 / OffsetSteps
\* from -2 to 2.
OffsetSteps == 100

\* valueToPitchBend: Math.round((value / 2 + 1) * 8192).
valueToPitchBend(value) ==
    LET normalized == RatDiv(value, Whole(2))
    IN  MathRound(RatMul(RatAdd(normalized, Whole(1)), Whole(8192)))

\* isValidMIDIPitchBend.
isValidMIDIPitchBend(value) == value >= 0 /\ value <= 16383

\* midiToNoteName for some MIDI note.
NameOfNote ==
    /\ num.phase = "idle"
    /\ \E midiNote \in MIN_MIDI_NOTE..MAX_MIDI_NOTE :
          num' = [phase |-> "name", input |-> midiNote,
                  mid |-> midiToNoteName(midiNote), output |-> 0]
    /\ UNCHANGED <<poolAll, param, url, held>>

\* noteToMidiNote on the name just made.
NoteOfName ==
    /\ num.phase = "name"
    /\ num' = [num EXCEPT !.phase = "number", !.output = noteToMidiNote(num.mid)]
    /\ UNCHANGED <<poolAll, param, url, held>>

\* valueToPitchBend for some semitone offset from -2 to 2.
ValueToPitchBend ==
    /\ num.phase = "idle"
    /\ \E k \in (-2 * OffsetSteps)..(2 * OffsetSteps) :
          LET value == Rat(k, OffsetSteps)
          IN  num' = [phase |-> "pitchBend", input |-> value, mid |-> 0,
                      output |-> valueToPitchBend(value)]
    /\ UNCHANGED <<poolAll, param, url, held>>

\* a <= b for two fractions.
RatLeq(a, b) == a.n * b.d <= b.n * a.d

\* An interpolation that runs from the far value to the near one: what the
\* mutated program computes between two stops.
InterpolateDown(x, x0, x1, y0, y1) ==
    LET t == RatDiv(RatSub(x, Whole(x0)), Whole(x1 - x0))
    IN  RatAdd(Whole(y1), RatMul(t, Whole(y0 - y1)))

\* Between two stops: t = (x - x0) / (x1 - x0), then y0 + t * (y1 - y0).
Interpolate(x, x0, x1, y0, y1) ==
    LET t == RatDiv(RatSub(x, Whole(x0)), Whole(x1 - x0))
    IN  RatAdd(Whole(y0), RatMul(t, Whole(y1 - y0)))

\* The first pair of neighbouring stops that x lies between, ends included:
\* the pair at which the loop over the stops returns.
FirstSegment(xs, x) ==
    CHOOSE i \in 1..(Len(xs) - 1) :
        /\ RatLeq(Whole(xs[i]), x) /\ RatLeq(x, Whole(xs[i + 1]))
        /\ \A j \in 1..(i - 1) :
              ~(RatLeq(Whole(xs[j]), x) /\ RatLeq(x, Whole(xs[j + 1])))

\* ENVELOPE_MAPPING.ATTACK_DECAY_STOPS: knob positions and milliseconds.
attackDecayStops ==
    << [pos |-> 0, value |-> 0], [pos |-> 1000, value |-> 10],
       [pos |-> 2000, value |-> 200], [pos |-> 4000, value |-> 600],
       [pos |-> 6000, value |-> 1000], [pos |-> 8000, value |-> 5000],
       [pos |-> 10000, value |-> 10000] >>

\* The stops of msToEnvelopeRange: milliseconds and envelope range.
EnvelopeRangeStops ==
    << [ms |-> 0, range |-> 0], [ms |-> 10, range |-> 1],
       [ms |-> 200, range |-> 3], [ms |-> 600, range |-> 5],
       [ms |-> 1000, range |-> 6], [ms |-> 5000, range |-> 8],
       [ms |-> 10000, range |-> 10] >>

\* msToEnvelopeRange: 0 up to 0 ms, 10 from 10000 ms, and between two stops
\* the interpolation of their ranges.
msToEnvelopeRange(ms) ==
    IF RatLeq(ms, Whole(0)) THEN Whole(0)
    ELSE IF RatLeq(Whole(10000), ms) THEN Whole(10)
    ELSE LET stops == EnvelopeRangeStops
             i == FirstSegment([k \in DOMAIN stops |-> stops[k].ms], ms)
             a == stops[i]
             b == stops[i + 1]
         IN  Interpolate(ms, a.ms, b.ms, a.range, b.range)

\* knobPosToValue(pos, stops): the envelope range of the milliseconds that
\* the stops give the position, the end stops beyond the ends.
knobPosToValue(pos, stops) ==
    IF pos <= stops[1].pos THEN msToEnvelopeRange(Whole(stops[1].value))
    ELSE IF pos >= stops[Len(stops)].pos
    THEN msToEnvelopeRange(Whole(stops[Len(stops)].value))
    ELSE LET i == FirstSegment([k \in DOMAIN stops |-> stops[k].pos], Whole(pos))
             a == stops[i]
             b == stops[i + 1]
             msValue == Interpolate(Whole(pos), a.pos, b.pos, a.value, b.value)
         IN  msToEnvelopeRange(msValue)

\* The knob positions that are tried: the whole positions from the first
\* stop to the last, and from each the positions these steps further on.
KnobPositions == attackDecayStops[1].pos..attackDecayStops[Len(attackDecayStops)].pos
KnobTurns == {1, 10, 100, 1000, 10000}

\* The knob is found at some position.
SetKnob ==
    /\ num.phase = "idle"
    /\ \E pos \in KnobPositions :
          LET v == knobPosToValue(pos, attackDecayStops)
          IN  num' = [phase |-> "knob", input |-> pos,
                      mid |-> [pos |-> pos, value |-> v], output |-> v]
    /\ UNCHANGED <<poolAll, param, url, held>>

\* The knob is turned up: mid keeps the position it had and the value there.
TurnKnob ==
    /\ num.phase = "knob"
    /\ \E d \in KnobTurns :
          /\ num.input + d \in KnobPositions
          /\ num' = [phase |-> "knob", input |-> num.input + d,
                     mid |-> [pos |-> num.input, value |-> num.output],
                     output |-> knobPosToValue(num.input + d, attackDecayStops)]
    /\ UNCHANGED <<poolAll, param, url, held>>

\* SYNTH_PARAMS.FILTER.CUTOFF.MIN and MAX, and FILTER_MAPPING.CUTOFF.MIN_FREQ
\* in Hz.
CUTOFF_MIN == -4
CUTOFF_MAX == 4
MIN_FREQ == 20

Least(a, b) == IF b < a THEN b ELSE a
Greatest(a, b) == IF a < b THEN b ELSE a

\* A knob whose travel begins at 0: what the mutated program takes for the
\* place of the clamped value in its range.
CutoffPlaceFromZero(clampedVal) == Rat(Greatest(clampedVal, 0), CUTOFF_MAX)

\* (clampedVal + 4) / 8: the place of the clamped value in the range.
CutoffPlace(clampedVal) == Rat(clampedVal + 4, 8)

\* Math.pow(x, MUSICAL_CURVE_POWER) = x^1.2 in millionths at the eighths
\* x = 0, 1/8, ..., 1, and Math.pow(maxFreq / minFreq, c) = 150^c in
\* thousandths at these nine values of c.
MusicalCurve ==
    <<0, 82469, 189465, 308203, 435275, 568926, 708066, 851941, 1000000>>
CutoffRatio ==
    <<1000, 1512, 2584, 4685, 8855, 17300, 34739, 71433, 150000>>
MathPowCurve(x) == MusicalCurve[(8 * x.n) \div x.d + 1]
MathPowRatio(c) == CutoffRatio[CHOOSE k \in DOMAIN MusicalCurve : MusicalCurve[k] = c]

\* mapCutoff(val) in thousandths of a Hz: the value is clamped to the knob's
\* range, placed in it, bent by the musical curve and mapped onto the
\* frequencies from minFreq to maxFreq = 3000 Hz, and the result is clamped
\* to these once more.
mapCutoff(val) ==
    LET minFreq == MIN_FREQ * 1000
        maxFreq == 3000 * 1000
        clampedVal == Greatest(CUTOFF_MIN, Least(CUTOFF_MAX, val))
        normalizedVal == CutoffPlace(clampedVal)
        musicalCurve == MathPowCurve(normalizedVal)
        result == MIN_FREQ * MathPowRatio(musicalCurve)
    IN  Greatest(minFreq, Least(maxFreq, result))

\* The knob values that are tried: the whole values of the range and one
\* beyond each end.
CutoffValues == (CUTOFF_MIN - 1)..(CUTOFF_MAX + 1)

\* mapCutoff for some knob value.
MapCutoff ==
    /\ num.phase = "idle"
    /\ \E val \in CutoffValues :
          num' = [phase |-> "cutoff", input |-> val, mid |-> 0,
                  output |-> mapCutoff(val)]
    /\ UNCHANGED <<poolAll, param, url, held>>

\* A double as the scaling functions see it: a fraction, an infinity with
\* its sign, or NaN.  The sign of a zero is not kept: the only zero that is
\* divided by is a difference of two equal numbers, which is +0.
Finite(r) == [k |-> "finite", n |-> r.n, d |-> r.d]
SignedInfinity(sign) == [k |-> "infinity", n |-> sign, d |-> 1]
NotANumber == [k |-> "nan", n |-> 0, d |-> 1]

Fraction(x) == Rat(x.n, x.d)
Sign(x) == IF x.n > 0 THEN 1 ELSE IF x.n < 0 THEN -1 ELSE 0

\* a + b, a - b, a * b and a / b of IEEE 754.
Plus(a, b) ==
    IF a.k = "nan" \/ b.k = "nan" THEN NotANumber
    ELSE IF a.k = "infinity" /\ b.k = "infinity"
    THEN IF a.n = b.n THEN a ELSE NotANumber
    ELSE IF a.k = "infinity" THEN a
    ELSE IF b.k = "infinity" THEN b
    ELSE Finite(RatAdd(Fraction(a), Fraction(b)))
Minus(a, b) == Plus(a, [b EXCEPT !.n = -@])
Times(a, b) ==
    IF a.k = "nan" \/ b.k = "nan" THEN NotANumber
    ELSE IF a.k = "infinity" \/ b.k = "infinity"
    THEN IF Sign(a) = 0 \/ Sign(b) = 0 THEN NotANumber
         ELSE SignedInfinity(Sign(a) * Sign(b))
    ELSE Finite(RatMul(Fraction(a), Fraction(b)))
Over(a, b) ==
    IF a.k = "nan" \/ b.k = "nan" THEN NotANumber
    ELSE IF a.k = "infinity"
    THEN IF b.k = "infinity" THEN NotANumber
         ELSE SignedInfinity(IF Sign(b) < 0 THEN -a.n ELSE a.n)
    ELSE IF b.k = "infinity" THEN Finite(Whole(0))
    ELSE IF Sign(b) = 0
    THEN IF Sign(a) = 0 THEN NotANumber ELSE SignedInfinity(Sign(a))
    ELSE Finite(RatDiv(Fraction(a), Fraction(b)))

RECURSIVE Pow2(_)
Pow2(k) == IF k = 0 THEN 1 ELSE 2 * Pow2(k - 1)

\* The curves at the places where they are sampled, 0, 1/2 and 1, in
\* thousandths: Math.log(1 + 9x) / Math.log(10), Math.pow(x, 1.2) and
\* Math.pow(x, 1 / 1.2).
CurvePlaces == <<Rat(0, 1), Rat(1, 2), Rat(1, 1)>>
LogCurveSamples == <<0, 740, 1000>>
PowerCurveSamples == <<0, 435, 1000>>
RootCurveSamples == <<0, 561, 1000>>
Sampled(samples, x) ==
    Finite(Rat(samples[CHOOSE i \in DOMAIN CurvePlaces : CurvePlaces[i] = Fraction(x)],
               1000))

\* Math.log(1 + normalized * 9) / Math.log(10) for a finite normalized.
LogCurve(normalized) == Sampled(LogCurveSamples, normalized)

\* Math.pow(2, normalized * 12) / Math.pow(2, 12) where normalized * 12 is
\* a whole number from 0.
TwelveToneCurve(normalized) ==
    LET steps == Fraction(Times(normalized, Finite(Whole(12))))
    IN  Finite(Rat(Pow2(steps.n), Pow2(12)))

\* Math.pow(x, y) for a positive y that is not a whole number: NaN for NaN
\* and below 0, +Infinity for both infinities, and the sampled curve from 0
\* to 1.
MathPow(x, samples) ==
    IF x.k = "nan" THEN NotANumber
    ELSE IF x.k = "infinity" THEN SignedInfinity(1)
    ELSE IF Sign(x) < 0 THEN NotANumber
    ELSE Sampled(samples, x)

\* logarithmicScale(value, [fromMin, fromMax], [toMin, toMax]).
logarithmicScale(value, fromMin, fromMax, toMin, toMax) ==
    IF fromMax = fromMin THEN toMin
    ELSE LET normalized == Over(Minus(value, fromMin), Minus(fromMax, fromMin))
             logarithmic == LogCurve(normalized)
         IN  Plus(toMin, Times(logarithmic, Minus(toMax, toMin)))

\* musicalScale(value, [fromMin, fromMax], [toMin, toMax]).
musicalScale(value, fromMin, fromMax, toMin, toMax) ==
    IF fromMax = fromMin THEN toMin
    ELSE LET normalized == Over(Minus(value, fromMin), Minus(fromMax, fromMin))
             musical == TwelveToneCurve(normalized)
         IN  Plus(toMin, Times(musical, Minus(toMax, toMin)))

\* toMusicalScale(value, [fromMin, fromMax], [toMin, toMax]).
toMusicalScale(value, fromMin, fromMax, toMin, toMax) ==
    LET normalized == Over(Minus(value, fromMin), Minus(fromMax, fromMin))
        musical == MathPow(normalized, PowerCurveSamples)
    IN  Plus(toMin, Times(musical, Minus(toMax, toMin)))

\* fromMusicalScale(value, [fromMin, fromMax], [toMin, toMax]).
fromMusicalScale(value, fromMin, fromMax, toMin, toMax) ==
    LET normalized == Over(Minus(value, fromMin), Minus(fromMax, fromMin))
        inverseMusical == MathPow(normalized, RootCurveSamples)
    IN  Plus(toMin, Times(inverseMusical, Minus(toMax, toMin)))

ScaleNames == {"logarithmicScale", "musicalScale", "toMusicalScale", "fromMusicalScale"}
Scale(name, value, fromMin, fromMax, toMin, toMax) ==
    CASE name = "logarithmicScale" -> logarithmicScale(value, fromMin, fromMax, toMin, toMax)
      [] name = "musicalScale" -> musicalScale(value, fromMin, fromMax, toMin, toMax)
      [] name = "toMusicalScale" -> toMusicalScale(value, fromMin, fromMax, toMin, toMax)
      [] name = "fromMusicalScale" -> fromMusicalScale(value, fromMin, fromMax, toMin, toMax)

\* The ranges that are tried, and the values in a source range: its ends
\* and its middle, and for a range of one point that point and the whole
\* numbers next to it.
FromRanges == { <<0, 0>>, <<5, 5>>, <<0, 10>>, <<-4, 4>>, <<0, 1>> }
ToRanges == { <<20, 3000>>, <<0, 1>>, <<0, 10>>, <<7, 7>>, <<10, 0>> }
ValuesIn(range) ==
    IF range[1] = range[2]
    THEN {Whole(range[1] - 1), Whole(range[1]), Whole(range[1] + 1)}
    ELSE {Whole(range[1]), Rat(range[1] + range[2], 2), Whole(range[2])}

\* One of the four scaling functions is called.
ScaleValue ==
    /\ num.phase = "idle"
    /\ \E name \in ScaleNames, from \in FromRanges, to \in ToRanges :
          \E value \in ValuesIn(from) :
             LET fromMin == Finite(Whole(from[1]))
                 fromMax == Finite(Whole(from[2]))
                 toMin == Finite(Whole(to[1]))
                 toMax == Finite(Whole(to[2]))
             IN  num' = [phase |-> "scaled",
                         input |-> [name |-> name, value |-> Finite(value),
                                    fromMin |-> fromMin, fromMax |-> fromMax,
                                    toMin |-> toMin, toMax |-> toMax],
                         mid |-> 0,
                         output |-> Scale(name, Finite(value), fromMin, fromMax,
                                          toMin, toMax)]
    /\ UNCHANGED <<poolAll, param, url, held>>

\* SpecMapping: one of the helpers is called on one of the inputs that are
\* tried; a note name is read back and the envelope knob is turned up.
NextMapping ==
    \/ NameOfNote
    \/ NoteOfName
    \/ ValueToPitchBend
    \/ SetKnob
    \/ TurnKnob
    \/ MapCutoff
    \/ ScaleValue

SpecMapping == Init /\ [][NextMapping]_vars

(* ------------------- names and mappings: properties -------------------- *)

\* C21: for every MIDI note from 0 to 127, noteToMidiNote of the name that
\* midiToNoteName gives the note is the note again.
C21_NameRoundTrip ==
    num.phase = "number" => num.output = Num(num.input, 0)

\* C22: when fromMax equals fromMin, each of logarithmicScale, musicalScale,
\* toMusicalScale and fromMusicalScale returns toMin for every value.
C22_DegenerateGivesToMin ==
    (num.phase = "scaled" /\ num.input.fromMax = num.input.fromMin) =>
        num.output = num.input.toMin

\* C23: knobPosToValue does not decrease: for positions p1 <= p2 from 0 to
\* 10000 the value at p1 is at most the value at p2.
C23_KnobMonotone ==
    (num.phase = "knob" /\ num.mid.pos <= num.input) =>
        RatLeq(num.mid.value, num.output)

\* The knob was turned from the fourth stop, where the value is 5, halfway
\* to the fifth, where it is 5.5.
C23_Witness ==
    /\ num.phase = "knob"
    /\ num.mid.pos = 4000
    /\ num.input = 5000
    /\ num.mid.value = Whole(5)
    /\ num.output = Rat(11, 2)

C26_BendInRange ==
    num.phase = "pitchBend" => isValidMIDIPitchBend(num.output)

(* ------------------- codec: the overlay on the store ------------------- *)

\* A top-level field has the same value in two states: the same fields lie
\* in it and each has the same value.
TopLevelFields(state) == {TopLevel(f) : f \in DOMAIN state}
SameIn(fields, one, other) ==
    \A f \in fields :
        /\ f \in DOMAIN one <=> f \in DOMAIN other
        /\ f \in DOMAIN one => one[f] = other[f]

\* C30: when useURLSync applies a decoded overlay with loadPreset, every
\* top-level field in the overlay takes the overlay's value and every
\* top-level field that is not in it keeps the value it had.
C30_OverlayFrame ==
    [][(url.phase = "address" /\ url'.phase = "loaded" /\ url'.applied) =>
          LET overlay == url'.result.state
              present == TopLevelFields(overlay)
              all == DOMAIN url.store \cup DOMAIN overlay \cup DOMAIN url'.store
          IN  /\ SameIn({f \in all : TopLevel(f) \in present}, url'.store, overlay)
              /\ SameIn({f \in all : TopLevel(f) \notin present}, url'.store, url.store)]_vars

\* An overlay with the filter block alone was applied: the cutoff is the
\* overlay's 4 and the main volume is still the initial 5.
C30_Witness ==
    /\ Loaded
    /\ url.applied
    /\ "filterCutoff" \in DOMAIN url.result.state
    /\ "mainVolume" \notin DOMAIN url.result.state
    /\ url.store["filterCutoff"] = Num(4, 0)
    /\ url.store["mainVolume"] = Num(5, 0)
    /\ url.store["oscillator1.waveform"] = Str(<<"sawtooth">>)

====
